---------------------------- MODULE Spec2Model ----------------------------
(***************************************************************************)
(* Model of the cluster client of clusterctl                               *)
(* (cmd/clusterctl/clusterdeployer/clusterclient/clusterclient.go).        *)
(*                                                                         *)
(* The module holds one group of variables per operation of the client and *)
(* one specification per group; a specification leaves the variables of    *)
(* the other groups at their initial values.                               *)
(*                                                                         *)
(*   SpecCreate         CreateMachines (fan-out, WaitGroup, sync.Once)     *)
(*   SpecManifest       Apply (waitForKubectlApply) and Delete             *)
(*   SpecClusterReady   WaitForClusterV1alpha1Ready                        *)
(*   SpecStatuses       WaitForResourceStatuses                            *)
(*   SpecMachineReady   waitForMachineReady called on a machine            *)
(*   SpecDeleteKinds    DeleteClusters, DeleteMachineClasses,              *)
(*                      DeleteMachineDeployments, DeleteMachineSets,       *)
(*                      DeleteMachines and their waits                     *)
(*   SpecForceDelete    ForceDeleteCluster, ForceDeleteMachineDeployment,  *)
(*                      ForceDeleteMachineSet, ForceDeleteMachine          *)
(*   SpecForCluster     GetMachineDeploymentsForCluster,                   *)
(*                      GetMachineSetsForCluster, GetMachinesForCluster    *)
(*   SpecGetKinds       GetClusters, GetMachineClasses,                    *)
(*                      GetMachineDeployments, GetMachineSets, GetMachines *)
(*   SpecDeleteObject   DeleteMachineClass, DeleteNamespace                *)
(*   SpecValidate       the ClusterTemplate validating webhook             *)
(*   SpecExtract        ExtractControlPlaneMachines                        *)
(*   SpecUpdateEndpoint UpdateClusterObjectEndpoint                        *)
(*   SpecStore          providercomponents.Store (Save, Load)              *)
(*   SpecCreateObjects  CreateMachineDeployments, CreateMachineSets        *)
(*   SpecGetCluster     GetCluster                                         *)
(*                                                                         *)
(* Conventions.  An error is a sequence of strings, the chain of messages  *)
(* from the outermost wrapper to the cause; the nil error is the empty     *)
(* sequence.  Time is counted in seconds.  ctrl.GetConfig and              *)
(* ctrlclient.New are taken to succeed: every operation starts with them   *)
(* and returns at once when they fail.                                     *)
(***************************************************************************)
EXTENDS Integers, Naturals, Sequences, FiniteSets, TLC

(***************************************************************************)
(* Bounds of the model.                                                    *)
(***************************************************************************)
\* longest machine list handed to CreateMachines
MaxMachines == 2

\* longest output of kubectl, in phrases
MaxPhrases == 1

\* most objects the store holds during WaitForResourceStatuses
MaxObjs == 2

\* most annotations a machine carries
MaxAnnotations == 1

\* most objects of one kind in one namespace of the store
MaxNames == 1

\* calls of DeleteMachineClasses the goroutine stack has room for
MaxDepth == 3

\* most items in the list a Get<Kind>sForCluster call is answered with
MaxCandidates == 2

\* most owner references of an item
MaxRefs == 2

\* most calls of a delete on the same target
MaxDeleteCalls == 2

\* most characters in the value of the environment variable
MaxEnvLen == 2

\* most machines handed to ExtractControlPlaneMachines
MaxExtract == 3

\* most characters in the endpoint handed to UpdateClusterObjectEndpoint
MaxEndpointLen == 4

\* most calls made on a provider-components store
MaxStoreOps == 3

\* most objects handed to CreateMachineDeployments or CreateMachineSets
MaxCreate == 3

\* most clusters at the API server when GetCluster is called
MaxClusters == 2

(***************************************************************************)
(* Program constants (clusterclient.go 50-60), in seconds.                 *)
(***************************************************************************)
retryIntervalKubectlApply == 10

retryIntervalResourceReady == 10

timeoutKubectlApply == 900

timeoutResourceReady == 900

timeoutMachineReady == 1800
\* time.Minute, in seconds
Minute == 60

retryIntervalResourceDelete == 10

timeoutResourceDelete == 900

(***************************************************************************)
(* Errors (github.com/pkg/errors).                                         *)
(***************************************************************************)
Nil == <<>>

\* errors.Wrapf(err, msg): nil stays nil, otherwise msg is put in front.
Wrapf(e, msg) == IF e = Nil THEN Nil ELSE <<msg>> \o e

(***************************************************************************)
(* Variables.                                                              *)
(***************************************************************************)
VARIABLES
    \* ---- CreateMachines ------------------------------------------------
    machines,     \* the input list: records [name, namespace]
    namespace,    \* the namespace argument
    cm_pc,        \* position of the calling goroutine
    cm_i,         \* index of the next machine of the range loop
    w_pc,         \* w_pc[i]: position of the worker of machine i
    wg,           \* sync.WaitGroup counter
    errOnce,      \* sync.Once: TRUE once Do has run its function
    gerr,         \* the error CreateMachines returns
    err,          \* the variable err of CreateMachines, shared by all workers
    created,      \* created[i]: outcome of the create call of machine i
    createCalls,  \* the objects handed to clientset.Create, as sent
    waitArg,      \* waitArg[i]: the machine handed to waitForMachineReady
    retval,       \* what CreateMachines returned
    crashed,      \* the process died of an unrecovered panic
    \* ---- Apply and Delete (kubectl) -------------------------------------
    kc_call,      \* the operation the caller invoked: "Apply" or "Delete"
    ap,           \* the poll of waitForKubectlApply
    applyCalls,   \* number of runs of kubectl apply
    applyErr,     \* what the last run of kubectl apply returned
    applyOkAt,    \* the run of kubectl apply that first succeeded, or 0
    applyFatalAt, \* the run that first failed with a fatal error, or 0
    applyFirstAt, \* the time of the first run of kubectl apply
    del_pc,       \* position of Delete
    deleteCalls,  \* number of runs of kubectl delete
    deleteErr,    \* what the last run of kubectl delete returned
    del_ret,      \* what Delete returned
    \* ---- WaitForClusterV1alpha1Ready -----------------------------------
    cr,           \* the poll of waitForClusterResourceReady
    cr_listed,    \* TRUE once a list call of the probe has succeeded
    \* ---- WaitForResourceStatuses ---------------------------------------
    store,        \* the objects of the API server: records [kind, status]
    rs,           \* the poll of WaitForResourceStatuses
    rs_k,         \* the list call the running probe is at (1..4)
    rs_listed,    \* the objects the running probe has listed so far
    rs_failed,    \* TRUE when the last list call of the probe failed
    \* ---- waitForMachineReady -------------------------------------------
    mr,           \* the poll of waitForMachineReady
    mr_machine,   \* the machine object the wait was handed, as it holds it
    mr_store,     \* the machine at the API server: empty, or one record
    mr_get,       \* how the fetch of the last probe ended
    mr_tickReady, \* what the last probe reported
    mr_env,       \* the value of CLUSTER_API_MACHINE_READY_TIMEOUT
    mr_timeout,   \* the local variable timeout, in seconds
    mr_pc,        \* "start" before the poll is entered, then "polling"
    \* ---- Delete<Kind>s ---------------------------------------------------
    dk_kind,      \* the kind of the call: which Delete<Kind>s was invoked
    dk_arg,       \* the namespace argument of the call
    dk_store,     \* the objects of the API server: [kind, namespace, name]
    dk_pc,        \* position of the running call
    dk_depth,     \* calls of DeleteMachineClasses below the running one
    dk_listed,    \* the items of the list over all namespaces
    dk_seen,      \* the keys of seen the range loop has still to visit
    dk_ns,        \* ns, the namespace the range loop is at
    dk_deletes,   \* the calls of clientset.Delete, in order: [ns, target]
    dk_poll,      \* the poll of waitFor<Kind>Delete
    dk_lastList,  \* the list call of the last probe: [kind, err, n]
    dk_done,      \* the namespaces whose wait has succeeded
    dk_fail,      \* the error of the delete call or wait that failed
    dk_ret,       \* what the call returned
    \* ---- ForceDelete<Kind> -----------------------------------------------
    fd_kind,      \* the kind of the call: which ForceDelete<Kind>
    fd_store,     \* the named object at the API server: empty, or one record
    fd_pc,        \* position of the call
    fd_obj,       \* the object the call holds after the fetch
    fd_got,       \* how the fetch ended
    fd_calls,     \* the update and delete calls issued, in order
    fd_before,    \* the store when the call was made
    fd_ret,       \* what the call returned
    \* ---- Get<Kind>sForCluster ---------------------------------------------
    fc_fn,        \* which Get<Kind>sForCluster was called
    fc_cluster,   \* the cluster argument: [kind, name]
    fc_items,     \* the items the list call returns: each its owner references
    fc_pc,        \* position of the call
    fc_out,       \* the slice returned: indices into the items
    fc_err,       \* the error returned
    \* ---- Get<Kind>s -------------------------------------------------------
    gk_fn,        \* which Get<Kind>s was called
    gk_arg,       \* the namespace argument
    gk_store,     \* the objects of the kind at the API server
    gk_pc,        \* position of the call
    gk_out,       \* the objects returned
    gk_err,       \* the error returned
    \* ---- DeleteMachineClass, DeleteNamespace ------------------------------
    dm_fn,        \* which of the two is called
    dm_name,      \* the name of the target
    dm_present,   \* TRUE while the target exists at the API server
    dm_got,       \* what clientset.Delete answered, call after call
    dm_rets,      \* what the calls returned, call after call
    \* ---- ClusterTemplate webhook ------------------------------------------
    ct_template,  \* the template handed to the webhook
    ct_op,        \* "create", "update" or "delete"; "none" before the call
    ct_pc,        \* "called" or "returned"
    ct_ret,       \* the error returned
    \* ---- ExtractControlPlaneMachines --------------------------------------
    ex_machines,  \* the machines handed in
    ex_i,         \* how many of them the loop has looked at
    ex_nodes,     \* the local list nodes
    ex_controlPlaneMachines, \* the local list controlPlaneMachines
    ex_pc,        \* "loop" or "returned"
    ex_ret,       \* the three values returned
    \* ---- UpdateClusterObjectEndpoint --------------------------------------
    ue_clusterEndpoint, \* the argument clusterEndpoint, a sequence of characters
    ue_store,     \* the clusters of the namespace at the API server
    ue_cluster,   \* what GetCluster returned: empty for nil, or the cluster
    ue_updates,   \* the status updates issued: the endpoints each one sent
    ue_pc,        \* "called", "returned" or "panicked"
    ue_err,       \* the error returned
    \* ---- providercomponents.Store -----------------------------------------
    ps_ExplicitPath, \* the field ExplicitPath of the store
    ps_file,      \* the file at that path: empty, or its contents
    ps_configMaps,\* per namespace, the ConfigMap clusterctl: empty, or one
    ps_saved,     \* the string of the last Save that succeeded: empty, or one
    ps_last,      \* the last call made on the store and what it returned
    ps_ops,       \* the number of calls made on the store
    \* ---- CreateMachineDeployments, CreateMachineSets ----------------------
    cd_fn,        \* which of the two is called
    cd_objects,   \* the objects of the input list, as they are now
    cd_namespace, \* the argument namespace
    cd_calls,     \* the create calls issued: the object each one sent
    cd_pc,        \* "loop" or "returned"
    cd_err,       \* the error returned
    \* ---- GetCluster -------------------------------------------------------
    gc_store,     \* the clusters at the API server, in the order it lists them
    gc_name,      \* the argument name
    gc_ns,        \* the argument ns
    gc_pc,        \* "called" or "returned"
    gc_listErr,   \* what the list call of GetClusters answered
    gc_cluster,   \* the cluster returned: <<>> for nil, or <<the cluster>>
    gc_err        \* the error returned

cmVars == <<machines, namespace, cm_pc, cm_i, w_pc, wg, errOnce, gerr, err,
            created, createCalls, waitArg, retval, crashed>>

kcVars == <<kc_call, ap, applyCalls, applyErr, applyOkAt, applyFatalAt, applyFirstAt,
            del_pc, deleteCalls, deleteErr, del_ret>>

crVars == <<cr, cr_listed>>

rsVars == <<store, rs, rs_k, rs_listed, rs_failed>>

mrVars == <<mr, mr_machine, mr_store, mr_get, mr_tickReady, mr_env,
           mr_timeout, mr_pc>>

dkVars == <<dk_kind, dk_arg, dk_store, dk_pc, dk_depth, dk_listed, dk_seen,
            dk_ns, dk_deletes, dk_poll, dk_lastList, dk_done, dk_fail, dk_ret>>

fdVars == <<fd_kind, fd_store, fd_pc, fd_obj, fd_got, fd_calls, fd_before,
            fd_ret>>

fcVars == <<fc_fn, fc_cluster, fc_items, fc_pc, fc_out, fc_err>>

gkVars == <<gk_fn, gk_arg, gk_store, gk_pc, gk_out, gk_err>>

dmVars == <<dm_fn, dm_name, dm_present, dm_got, dm_rets>>

ctVars == <<ct_template, ct_op, ct_pc, ct_ret>>

exVars == <<ex_machines, ex_i, ex_nodes, ex_controlPlaneMachines, ex_pc,
            ex_ret>>

ueVars == <<ue_clusterEndpoint, ue_store, ue_cluster, ue_updates, ue_pc,
            ue_err>>

psVars == <<ps_ExplicitPath, ps_file, ps_configMaps, ps_saved, ps_last,
            ps_ops>>

cdVars == <<cd_fn, cd_objects, cd_namespace, cd_calls, cd_pc, cd_err>>

gcVars == <<gc_store, gc_name, gc_ns, gc_pc, gc_listErr, gc_cluster, gc_err>>

vars == <<cmVars, kcVars, crVars, rsVars, mrVars, dkVars, fdVars, fcVars,
          gkVars, dmVars, ctVars, exVars, ueVars, psVars, cdVars, gcVars>>

\* the variables an operation leaves alone: those of the other operations
notCm == <<kcVars, crVars, rsVars, mrVars, dkVars, fdVars, fcVars, gkVars,
           dmVars, ctVars, exVars, ueVars, psVars, cdVars, gcVars>>

notKc == <<cmVars, crVars, rsVars, mrVars, dkVars, fdVars, fcVars, gkVars,
           dmVars, ctVars, exVars, ueVars, psVars, cdVars, gcVars>>

notCr == <<cmVars, kcVars, rsVars, mrVars, dkVars, fdVars, fcVars, gkVars,
           dmVars, ctVars, exVars, ueVars, psVars, cdVars, gcVars>>

notRs == <<cmVars, kcVars, crVars, mrVars, dkVars, fdVars, fcVars, gkVars,
           dmVars, ctVars, exVars, ueVars, psVars, cdVars, gcVars>>

notMr == <<cmVars, kcVars, crVars, rsVars, dkVars, fdVars, fcVars, gkVars,
           dmVars, ctVars, exVars, ueVars, psVars, cdVars, gcVars>>

notDk == <<cmVars, kcVars, crVars, rsVars, mrVars, fdVars, fcVars, gkVars,
           dmVars, ctVars, exVars, ueVars, psVars, cdVars, gcVars>>

notFd == <<cmVars, kcVars, crVars, rsVars, mrVars, dkVars, fcVars, gkVars,
           dmVars, ctVars, exVars, ueVars, psVars, cdVars, gcVars>>

notFc == <<cmVars, kcVars, crVars, rsVars, mrVars, dkVars, fdVars, gkVars,
           dmVars, ctVars, exVars, ueVars, psVars, cdVars, gcVars>>

notGk == <<cmVars, kcVars, crVars, rsVars, mrVars, dkVars, fdVars, fcVars,
           dmVars, ctVars, exVars, ueVars, psVars, cdVars, gcVars>>

notDm == <<cmVars, kcVars, crVars, rsVars, mrVars, dkVars, fdVars, fcVars,
           gkVars, ctVars, exVars, ueVars, psVars, cdVars, gcVars>>

notCt == <<cmVars, kcVars, crVars, rsVars, mrVars, dkVars, fdVars, fcVars,
           gkVars, dmVars, exVars, ueVars, psVars, cdVars, gcVars>>

notEx == <<cmVars, kcVars, crVars, rsVars, mrVars, dkVars, fdVars, fcVars,
           gkVars, dmVars, ctVars, ueVars, psVars, cdVars, gcVars>>

notUe == <<cmVars, kcVars, crVars, rsVars, mrVars, dkVars, fdVars, fcVars,
           gkVars, dmVars, ctVars, exVars, psVars, cdVars, gcVars>>

notPs == <<cmVars, kcVars, crVars, rsVars, mrVars, dkVars, fdVars, fcVars,
           gkVars, dmVars, ctVars, exVars, ueVars, cdVars, gcVars>>

notCd == <<cmVars, kcVars, crVars, rsVars, mrVars, dkVars, fdVars, fcVars,
           gkVars, dmVars, ctVars, exVars, ueVars, psVars, gcVars>>

notGc == <<cmVars, kcVars, crVars, rsVars, mrVars, dkVars, fdVars, fcVars,
           gkVars, dmVars, ctVars, exVars, ueVars, psVars, cdVars>>

(***************************************************************************)
(* util.PollImmediate(interval, timeout, probe).                           *)
(*                                                                         *)
(* The probe runs at once, then every interval, until it answers true, or  *)
(* answers an error, or the timeout has elapsed.  A poll is a record: the  *)
(* time elapsed, the number of probes made, whether it is over, and its    *)
(* result.                                                                 *)
(***************************************************************************)
\* the error of a poll that ran out of time
ErrWaitTimeout == <<"timed out waiting for the condition">>

PollStart == [elapsed |-> 0, probes |-> 0, done |-> FALSE, result |-> Nil]

\* the poll p after a probe that answered (ok, e)
PollImmediate(p, interval, timeout, ok, e) ==
    IF e # Nil
      THEN [p EXCEPT !.probes = @ + 1, !.done = TRUE, !.result = e]
    ELSE IF ok
      THEN [p EXCEPT !.probes = @ + 1, !.done = TRUE, !.result = Nil]
    ELSE IF p.elapsed + interval >= timeout
      THEN [elapsed |-> p.elapsed + interval, probes |-> p.probes + 1,
            done |-> TRUE, result |-> ErrWaitTimeout]
    ELSE [p EXCEPT !.elapsed = @ + interval, !.probes = @ + 1]

(***************************************************************************)
(* The values of a group of variables while its operation is not in use.   *)
(***************************************************************************)
IdleCreate ==
    /\ machines = <<>>
    /\ namespace = "default"
    /\ cm_pc = "idle"
    /\ cm_i = 1
    /\ w_pc = <<>>
    /\ wg = 0
    /\ errOnce = FALSE
    /\ gerr = Nil
    /\ err = Nil
    /\ created = <<>>
    /\ createCalls = {}
    /\ waitArg = <<>>
    /\ retval = Nil
    /\ crashed = FALSE

IdleManifest ==
    /\ kc_call = "none"
    /\ ap = PollStart
    /\ applyCalls = 0
    /\ applyErr = Nil
    /\ applyOkAt = 0
    /\ applyFatalAt = 0
    /\ applyFirstAt = 0
    /\ del_pc = "idle"
    /\ deleteCalls = 0
    /\ deleteErr = Nil
    /\ del_ret = Nil

IdleClusterReady ==
    /\ cr = PollStart
    /\ cr_listed = FALSE

IdleStatuses ==
    /\ store = {}
    /\ rs = PollStart
    /\ rs_k = 1
    /\ rs_listed = {}
    /\ rs_failed = FALSE

IdleMachineReady ==
    /\ mr = PollStart
    /\ mr_machine = [nodeRef |-> FALSE, annotations |-> 0]
    /\ mr_store = {}
    /\ mr_get = "none"
    /\ mr_tickReady = FALSE
    /\ mr_env = <<>>
    /\ mr_timeout = timeoutMachineReady
    /\ mr_pc = "start"

IdleDeleteKinds ==
    /\ dk_kind = "Cluster"
    /\ dk_arg = ""
    /\ dk_store = {}
    /\ dk_pc = "idle"
    /\ dk_depth = 0
    /\ dk_listed = {}
    /\ dk_seen = {}
    /\ dk_ns = ""
    /\ dk_deletes = <<>>
    /\ dk_poll = PollStart
    /\ dk_lastList = [kind |-> "none", err |-> Nil, n |-> 0]
    /\ dk_done = {}
    /\ dk_fail = Nil
    /\ dk_ret = Nil

IdleForceDelete ==
    /\ fd_kind = "Cluster"
    /\ fd_store = {}
    /\ fd_pc = "idle"
    /\ fd_obj = [finalizers |-> {}, deleting |-> FALSE]
    /\ fd_got = "none"
    /\ fd_calls = <<>>
    /\ fd_before = {}
    /\ fd_ret = Nil

IdleForCluster ==
    /\ fc_fn = "GetMachinesForCluster"
    /\ fc_cluster = [kind |-> "Cluster", name |-> "c1"]
    /\ fc_items = <<>>
    /\ fc_pc = "idle"
    /\ fc_out = <<>>
    /\ fc_err = Nil

IdleGetKinds ==
    /\ gk_fn = "GetClusters"
    /\ gk_arg = ""
    /\ gk_store = {}
    /\ gk_pc = "idle"
    /\ gk_out = {}
    /\ gk_err = Nil

IdleDeleteObject ==
    /\ dm_fn = "none"
    /\ dm_name = ""
    /\ dm_present = FALSE
    /\ dm_got = <<>>
    /\ dm_rets = <<>>

IdleValidate ==
    /\ ct_template = [name |-> "", host |-> "", port |-> 0, paused |-> FALSE]
    /\ ct_op = "none"
    /\ ct_pc = "idle"
    /\ ct_ret = Nil

IdleExtract ==
    /\ ex_machines = <<>>
    /\ ex_i = 0
    /\ ex_nodes = <<>>
    /\ ex_controlPlaneMachines = <<>>
    /\ ex_pc = "idle"
    /\ ex_ret = [controlPlane |-> [nil |-> TRUE, items |-> <<>>],
                 nodes |-> [nil |-> TRUE, items |-> <<>>], err |-> Nil]

IdleUpdateEndpoint ==
    /\ ue_clusterEndpoint = <<>>
    /\ ue_store = {}
    /\ ue_cluster = {}
    /\ ue_updates = <<>>
    /\ ue_pc = "idle"
    /\ ue_err = Nil

IdleStore ==
    /\ ps_ExplicitPath = ""
    /\ ps_file = {}
    /\ ps_configMaps = [ns \in {"default", ""} |-> {}]
    /\ ps_saved = {}
    /\ ps_last = [op |-> "idle", val |-> "", err |-> Nil, failed |-> FALSE]
    /\ ps_ops = 0

IdleCreateObjects ==
    /\ cd_fn = "none"
    /\ cd_objects = <<>>
    /\ cd_namespace = ""
    /\ cd_calls = <<>>
    /\ cd_pc = "idle"
    /\ cd_err = Nil

IdleGetCluster ==
    /\ gc_store = <<>>
    /\ gc_name = ""
    /\ gc_ns = ""
    /\ gc_pc = "idle"
    /\ gc_listErr = Nil
    /\ gc_cluster = <<>>
    /\ gc_err = Nil

(***************************************************************************)
(* CreateMachines (clusterclient.go 603-638).                              *)
(*                                                                         *)
(* The calling goroutine ranges over the machines; for each it adds one to *)
(* the WaitGroup and starts a worker.  It then waits for the WaitGroup and *)
(* returns gerr.  A worker sets the namespace, creates the machine,        *)
(* stores the outcome in the variable err of the enclosing function (one   *)
(* variable, captured by every worker), tests it, and either records the   *)
(* failure through errOnce or waits for createdMachine to become ready.    *)
(* The workers read and write err without synchronisation; the model takes *)
(* every interleaving of the single reads and writes.                      *)
(***************************************************************************)
MachineNames == <<"m1", "m2", "m3", "m4">>

\* the namespaces a machine of the input may carry before the call
InputNamespaces == {"", "other"}

\* the namespaces CreateMachines is called with
TargetNamespaces == {"default", "ns1"}

\* the nil *clusterv1.Machine
NilMachine == [name |-> "<nil>", namespace |-> "<nil>"]

\* var createdMachine *clusterv1.Machine: declared, never assigned.
createdMachine == NilMachine

Workers == 1..Len(machines)

\* the error clientset.Create answers with for machine m
CreateFailure(m) == <<"create refused by the API server", m.name>>

\* errOnce.Do(func() { gerr = e }): the slot after the call.
ErrOnceDoNoGuard(done, slot, e) == e

ErrOnceDo(done, slot, e) == IF done THEN slot ELSE e

\* wg.Wait() may return
WgWaitNoJoin(counter) == TRUE

WgWait(counter) == counter = 0

InitCreate ==
    /\ \E n \in 0..MaxMachines :
         \E nss \in [1..n -> InputNamespaces] :
            machines = [i \in 1..n |->
                          [name |-> MachineNames[i], namespace |-> nss[i]]]
    /\ namespace \in TargetNamespaces
    /\ cm_pc = "loop"
    /\ cm_i = 1
    /\ w_pc = [i \in Workers |-> "notstarted"]
    /\ wg = 0
    /\ errOnce = FALSE
    /\ gerr = Nil
    /\ err = Nil
    /\ created = [i \in Workers |-> "none"]
    /\ createCalls = {}
    /\ waitArg = [i \in Workers |-> {}]
    /\ retval = Nil
    /\ crashed = FALSE

\* for _, machine := range machines { wg.Add(1); go func(machine) {...}(machine) }
Spawn ==
    /\ ~crashed
    /\ cm_pc = "loop"
    /\ cm_i <= Len(machines)
    /\ wg' = wg + 1
    /\ w_pc' = [w_pc EXCEPT ![cm_i] = "setns"]
    /\ cm_i' = cm_i + 1
    /\ UNCHANGED <<machines, namespace, cm_pc, errOnce, gerr, err, created,
                   createCalls, waitArg, retval, crashed>>
    /\ UNCHANGED notCm

\* the range loop is over: the caller reaches wg.Wait()
LoopExit ==
    /\ ~crashed
    /\ cm_pc = "loop"
    /\ cm_i > Len(machines)
    /\ cm_pc' = "wait"
    /\ UNCHANGED <<machines, namespace, cm_i, w_pc, wg, errOnce, gerr, err,
                   created, createCalls, waitArg, retval, crashed>>
    /\ UNCHANGED notCm

\* wg.Wait(); return gerr
Return ==
    /\ ~crashed
    /\ cm_pc = "wait"
    /\ WgWait(wg)
    /\ cm_pc' = "returned"
    /\ retval' = gerr
    /\ UNCHANGED <<machines, namespace, cm_i, w_pc, wg, errOnce, gerr, err,
                   created, createCalls, waitArg, crashed>>
    /\ UNCHANGED notCm

\* machine.Namespace = namespace
SetNamespace(i) ==
    /\ ~crashed
    /\ w_pc[i] = "setns"
    /\ machines' = [machines EXCEPT ![i].namespace = namespace]
    /\ w_pc' = [w_pc EXCEPT ![i] = "create"]
    /\ UNCHANGED <<namespace, cm_pc, cm_i, wg, errOnce, gerr, err, created,
                   createCalls, waitArg, retval, crashed>>
    /\ UNCHANGED notCm

\* err = clientset.Create(context.Background(), machine): the API server
\* accepts or refuses; the outcome is written to the shared err.
Create(i) ==
    /\ ~crashed
    /\ w_pc[i] = "create"
    /\ \E accepted \in BOOLEAN :
         /\ created' = [created EXCEPT ![i] = IF accepted THEN "ok" ELSE "fail"]
         /\ err' = IF accepted THEN Nil ELSE CreateFailure(machines[i])
    /\ createCalls' = createCalls \cup {machines[i]}
    /\ w_pc' = [w_pc EXCEPT ![i] = "check"]
    /\ UNCHANGED <<machines, namespace, cm_pc, cm_i, wg, errOnce, gerr,
                   waitArg, retval, crashed>>
    /\ UNCHANGED notCm

\* if err != nil { errOnce.Do(...); return }  else  waitForMachineReady(c.clientSet, createdMachine)
CheckErr(i) ==
    /\ ~crashed
    /\ w_pc[i] = "check"
    /\ IF err # Nil
         THEN /\ w_pc' = [w_pc EXCEPT ![i] = "record"]
              /\ UNCHANGED waitArg
         ELSE /\ w_pc' = [w_pc EXCEPT ![i] = "waitready"]
              /\ waitArg' = [waitArg EXCEPT ![i] = {createdMachine}]
    /\ UNCHANGED <<machines, namespace, cm_pc, cm_i, wg, errOnce, gerr, err,
                   created, createCalls, retval, crashed>>
    /\ UNCHANGED notCm

\* errOnce.Do(func() { gerr = errors.Wrapf(err, "error creating a machine object in namespace %v", namespace) })
RecordCreateErr(i) ==
    /\ ~crashed
    /\ w_pc[i] = "record"
    /\ gerr' = ErrOnceDo(errOnce, gerr,
                  Wrapf(err, "error creating a machine object in namespace"))
    /\ errOnce' = TRUE
    /\ w_pc' = [w_pc EXCEPT ![i] = "deferred"]
    /\ UNCHANGED <<machines, namespace, cm_pc, cm_i, wg, err, created,
                   createCalls, waitArg, retval, crashed>>
    /\ UNCHANGED notCm

\* waitForMachineReady(c.clientSet, createdMachine): the first probe reads
\* machine.Name; on the nil machine that is a nil pointer dereference, a
\* panic of the worker.  On a machine the wait ends ready or with an error,
\* which errOnce records.
WaitReady(i) ==
    /\ ~crashed
    /\ w_pc[i] = "waitready"
    /\ IF waitArg[i] = {NilMachine}
         THEN /\ w_pc' = [w_pc EXCEPT ![i] = "panicking"]
              /\ UNCHANGED <<gerr, errOnce>>
         ELSE /\ w_pc' = [w_pc EXCEPT ![i] = "deferred"]
              /\ \E ready \in BOOLEAN :
                   IF ready
                     THEN UNCHANGED <<gerr, errOnce>>
                     ELSE /\ gerr' = ErrOnceDo(errOnce, gerr, ErrWaitTimeout)
                          /\ errOnce' = TRUE
    /\ UNCHANGED <<machines, namespace, cm_pc, cm_i, wg, err, created,
                   createCalls, waitArg, retval, crashed>>
    /\ UNCHANGED notCm

\* defer wg.Done(), on the normal return of the worker
WorkerDone(i) ==
    /\ ~crashed
    /\ w_pc[i] = "deferred"
    /\ wg' = wg - 1
    /\ w_pc' = [w_pc EXCEPT ![i] = "done"]
    /\ UNCHANGED <<machines, namespace, cm_pc, cm_i, errOnce, gerr, err,
                   created, createCalls, waitArg, retval, crashed>>
    /\ UNCHANGED notCm

\* defer wg.Done(), run while the worker unwinds from the panic
PanicUnwind(i) ==
    /\ ~crashed
    /\ w_pc[i] = "panicking"
    /\ wg' = wg - 1
    /\ w_pc' = [w_pc EXCEPT ![i] = "fatal"]
    /\ UNCHANGED <<machines, namespace, cm_pc, cm_i, errOnce, gerr, err,
                   created, createCalls, waitArg, retval, crashed>>
    /\ UNCHANGED notCm

\* nobody recovers: the runtime ends the process
PanicExit(i) ==
    /\ ~crashed
    /\ w_pc[i] = "fatal"
    /\ crashed' = TRUE
    /\ UNCHANGED <<machines, namespace, cm_pc, cm_i, w_pc, wg, errOnce, gerr,
                   err, created, createCalls, waitArg, retval>>
    /\ UNCHANGED notCm

NextCreate ==
    \/ Spawn
    \/ LoopExit
    \/ Return
    \/ \E i \in Workers : SetNamespace(i)
    \/ \E i \in Workers : Create(i)
    \/ \E i \in Workers : CheckErr(i)
    \/ \E i \in Workers : RecordCreateErr(i)
    \/ \E i \in Workers : WaitReady(i)
    \/ \E i \in Workers : WorkerDone(i)
    \/ \E i \in Workers : PanicUnwind(i)
    \/ \E i \in Workers : PanicExit(i)

InitSpecCreate ==
    /\ InitCreate /\ IdleManifest /\ IdleClusterReady /\ IdleStatuses
    /\ IdleMachineReady /\ IdleDeleteKinds /\ IdleForceDelete
    /\ IdleForCluster /\ IdleGetKinds /\ IdleDeleteObject /\ IdleValidate
    /\ IdleExtract /\ IdleUpdateEndpoint /\ IdleStore /\ IdleCreateObjects
    /\ IdleGetCluster

SpecCreate == InitSpecCreate /\ [][NextCreate]_vars

(***************************************************************************)
(* Claims about CreateMachines.                                            *)
(***************************************************************************)
\* a worker that is issuing its create call or waiting for readiness
WorkerBusy(i) == w_pc[i] \in {"setns", "create", "check", "record",
                              "waitready", "deferred", "panicking"}

\* C1: CreateMachines starts one worker per machine of the input list and
\* returns only after every worker has finished: when it has returned, a
\* worker was started for every machine and none is still creating its
\* machine or waiting for readiness; while the loop runs, exactly the
\* machines before the loop index have a worker.
C1_ReturnsAfterAllWorkers ==
    /\ \A i \in Workers : (w_pc[i] # "notstarted") <=> (i < cm_i)
    /\ cm_pc \in {"wait", "returned"} => cm_i = Len(machines) + 1
    /\ cm_pc = "returned" => \A i \in Workers : ~WorkerBusy(i)

\* two machines, both workers ran to their end, and the call returned
C1_Witness ==
    /\ cm_pc = "returned"
    /\ Len(machines) >= 2
    /\ \A i \in Workers : w_pc[i] = "done"

\* C2: the error slot gerr is written at most once per call (once errOnce
\* has fired, no later worker changes it), and the value returned is the
\* slot as read after the join, when the WaitGroup counter is zero.
C2_FirstErrorLatched ==
    [][ /\ errOnce => gerr' = gerr
        /\ (~errOnce /\ errOnce') =>
              gerr' \in {Wrapf(err, "error creating a machine object in namespace"),
                         ErrWaitTimeout}
        /\ (cm_pc # "returned" /\ cm_pc' = "returned") =>
              /\ wg = 0
              /\ \A i \in Workers : ~WorkerBusy(i)
              /\ retval' = gerr
        /\ cm_pc = "returned" => retval' = retval
      ]_vars

\* both creates failed, the first recorded failure was returned and the
\* failure of the other worker was dropped
C2_Witness ==
    /\ cm_pc = "returned"
    /\ Len(machines) >= 2
    /\ created[1] = "fail" /\ created[2] = "fail"
    /\ retval # Nil
    /\ \E i \in Workers :
         retval # Wrapf(CreateFailure(machines[i]),
                        "error creating a machine object in namespace")

\* the call is over: it returned, or the process died
CallOver == cm_pc = "returned" \/ crashed

\* C3 (as claimed): when the create of exactly one machine fails and every
\* other create succeeds, the call ends by returning a non-nil error, and
\* the create call was issued for every machine of the list.
C3_OneFailureReturnsError ==
    ( /\ CallOver
      /\ Len(machines) >= 2
      /\ \E k \in Workers :
           /\ created[k] = "fail"
           /\ \A i \in Workers \ {k} : created[i] # "fail" )
    => ( /\ cm_pc = "returned"
         /\ retval # Nil
         /\ \A i \in Workers : created[i] # "none" )

\* C4 (as claimed): a worker waits for readiness only when its own create
\* succeeded, and the wait is handed the machine this worker created, with
\* the target namespace and the machine's name.
C4_WaitsOnCreatedMachine ==
    \A i \in Workers :
       w_pc[i] = "waitready" =>
          /\ created[i] = "ok"
          /\ waitArg[i] = {[name |-> machines[i].name, namespace |-> namespace]}

\* C29: the outcome of a worker's create call is seen by that worker alone:
\* a worker whose create failed never goes on to the readiness wait, and a
\* worker whose create succeeded never goes to record a create error.
C29_WorkersShareNoOutcome ==
    \A i \in Workers :
       /\ created[i] = "fail" =>
             w_pc[i] \notin {"waitready", "panicking", "fatal"}
       /\ created[i] = "ok" => w_pc[i] # "record"

(***************************************************************************)
(* Apply and Delete (clusterclient.go 223-229, 1173-1234).                 *)
(*                                                                         *)
(* kubectl writes an output, a sequence of phrases, and ends with an exit  *)
(* error or none.  kubectlManifestCmd wraps the exit error in a message    *)
(* that quotes the output.  Apply polls kubectl apply; Delete runs kubectl *)
(* delete once.  A behaviour is one call, of Apply or of Delete.           *)
(***************************************************************************)
\* what kubectl may print: the phrases the client looks for, and others
Phrases == {"EOF", "connection refused", "no such host",
            "unable to recognize", "namespaces \"default\" not found",
            "forbidden", "already exists"}

\* the outputs of one run of kubectl
Outputs == UNION {[1..n -> Phrases] : n \in 0..MaxPhrases}

\* how the kubectl process may end: exit code 0, or an *exec.ExitError
ExitErrors == {Nil, <<"exit status 1">>}

\* strings.Contains(phrase, needle) for the needles of waitForKubectlApply
PhraseContains(phrase, needle) ==
    \/ phrase = needle
    \/ phrase = "connection refused" /\ needle = "refused"

\* strings.Contains(err.Error(), needle): some part of the message has it
ErrContains(e, needle) == \E k \in 1..Len(e) : PhraseContains(e[k], needle)

\* kubectlManifestCmd: nil on exit code 0, else the wrapped exit error
kubectlManifestCmd(out, exit) ==
    IF exit # Nil
      THEN <<"couldn't kubectl apply, output:">> \o out \o exit
      ELSE Nil

kubectlApply(out, exit) == kubectlManifestCmd(out, exit)

\* a kubectl delete whose transient failures are dropped
kubectlDeleteDropsTransient(out, exit) ==
    IF ErrContains(kubectlManifestCmd(out, exit), "refused")
      THEN Nil
      ELSE kubectlManifestCmd(out, exit)

kubectlDelete(out, exit) == kubectlManifestCmd(out, exit)

\* a probe that takes a refused connection for success
ApplyProbeRefusedIsDone(e) ==
    IF e # Nil /\ ~ErrContains(e, "refused")
      THEN [ok |-> FALSE, err |-> e]
      ELSE [ok |-> TRUE, err |-> Nil]

\* a probe that retries every failure
ApplyProbeRetriesAll(e) ==
    IF e # Nil THEN [ok |-> FALSE, err |-> Nil] ELSE [ok |-> TRUE, err |-> Nil]

\* the probe of waitForKubectlApply, given what kubectlApply returned
ApplyProbe(e) ==
    IF e # Nil
      THEN IF \/ ErrContains(e, "EOF")
              \/ ErrContains(e, "refused")
              \/ ErrContains(e, "no such host")
             THEN [ok |-> FALSE, err |-> Nil]
           ELSE IF ErrContains(e, "unable to recognize")
             THEN [ok |-> FALSE, err |-> Nil]
           ELSE IF ErrContains(e, "namespaces \"default\" not found")
             THEN [ok |-> FALSE, err |-> Nil]
           ELSE [ok |-> FALSE, err |-> e]
      ELSE [ok |-> TRUE, err |-> Nil]

InitManifest ==
    /\ kc_call \in {"Apply", "Delete"}
    /\ ap = PollStart
    /\ applyCalls = 0
    /\ applyErr = Nil
    /\ applyOkAt = 0
    /\ applyFatalAt = 0
    /\ applyFirstAt = 0
    /\ del_pc = "called"
    /\ deleteCalls = 0
    /\ deleteErr = Nil
    /\ del_ret = Nil

\* Apply: return c.waitForKubectlApply(manifest).
\* one probe of waitForKubectlApply: run kubectl apply, classify, poll on
ApplyTick ==
    /\ kc_call = "Apply"
    /\ ~ap.done
    /\ \E out \in Outputs, exit \in ExitErrors :
         LET e == kubectlApply(out, exit)
             r == ApplyProbe(e)
         IN  /\ applyErr' = e
             /\ ap' = PollImmediate(ap, retryIntervalKubectlApply,
                                    timeoutKubectlApply, r.ok, r.err)
             /\ applyOkAt' = IF applyOkAt = 0 /\ e = Nil
                               THEN applyCalls + 1 ELSE applyOkAt
             /\ applyFatalAt' = IF applyFatalAt = 0 /\ e # Nil /\ r.err # Nil
                                  THEN applyCalls + 1 ELSE applyFatalAt
    /\ applyCalls' = applyCalls + 1
    /\ applyFirstAt' = IF applyCalls = 0 THEN ap.elapsed ELSE applyFirstAt
    /\ UNCHANGED <<kc_call, del_pc, deleteCalls, deleteErr, del_ret>>
    /\ UNCHANGED notKc

\* Delete: return c.kubectlDelete(manifest)
DeleteRun ==
    /\ kc_call = "Delete"
    /\ del_pc = "called"
    /\ \E out \in Outputs, exit \in ExitErrors :
         /\ deleteErr' = kubectlManifestCmd(out, exit)
         /\ del_ret' = kubectlDelete(out, exit)
    /\ deleteCalls' = deleteCalls + 1
    /\ del_pc' = "returned"
    /\ UNCHANGED <<kc_call, ap, applyCalls, applyErr, applyOkAt, applyFatalAt,
                   applyFirstAt>>
    /\ UNCHANGED notKc

NextManifest == ApplyTick \/ DeleteRun

InitSpecManifest ==
    /\ InitManifest /\ IdleCreate /\ IdleClusterReady /\ IdleStatuses
    /\ IdleMachineReady /\ IdleDeleteKinds /\ IdleForceDelete
    /\ IdleForCluster /\ IdleGetKinds /\ IdleDeleteObject /\ IdleValidate
    /\ IdleExtract /\ IdleUpdateEndpoint /\ IdleStore /\ IdleCreateObjects
    /\ IdleGetCluster

SpecManifest == InitSpecManifest /\ [][NextManifest]_vars

(***************************************************************************)
(* Claims about Apply and Delete.                                          *)
(***************************************************************************)
\* the three kinds of failure text that count as transient
ServerNotReady(e) ==
    ErrContains(e, "EOF") \/ ErrContains(e, "refused") \/ ErrContains(e, "no such host")

KindNotRegistered(e) == ErrContains(e, "unable to recognize")

DefaultNamespaceMissing(e) == ErrContains(e, "namespaces \"default\" not found")

Retryable(e) ==
    ServerNotReady(e) \/ KindNotRegistered(e) \/ DefaultNamespaceMissing(e)

\* C7: when kubectl apply first succeeds on its Nth run, Apply returns
\* success after exactly N runs, the first made at time 0, the Nth at
\* (N-1) intervals, and kubectl apply is never run again; Apply reports
\* success only on a run that succeeded.
C7_ExactlyNProbes ==
    /\ ap.probes = applyCalls
    /\ applyCalls >= 1 => applyFirstAt = 0
    /\ applyOkAt # 0 =>
          /\ ap.done
          /\ ap.result = Nil
          /\ applyCalls = applyOkAt
          /\ ap.elapsed = (applyOkAt - 1) * retryIntervalKubectlApply
    /\ (ap.done /\ ap.result = Nil) => applyOkAt = applyCalls

\* two retryable failures, then success on the third run
C7_Witness ==
    /\ ap.done
    /\ ap.result = Nil
    /\ applyOkAt = 3
    /\ applyCalls = 3

\* C9: a failure of kubectl apply is retried only when its text is of one
\* of the three transient kinds; any other failure ends Apply at once with
\* that error, and kubectl apply is not run again.
C9_OnlyTransientRetried ==
    /\ (applyErr # Nil /\ ~Retryable(applyErr)) =>
          /\ applyFatalAt = applyCalls
          /\ ap.done
          /\ ap.result = applyErr
    /\ applyFatalAt # 0 =>
          /\ applyCalls = applyFatalAt
          /\ ~Retryable(applyErr)
    /\ (applyCalls >= 1 /\ ~ap.done) => (applyErr # Nil /\ Retryable(applyErr))

\* one transient failure was retried, the second run failed fatally
C9_Witness ==
    /\ applyFatalAt = 2
    /\ applyCalls = 2
    /\ ap.done
    /\ ap.result = applyErr
    /\ ErrContains(applyErr, "forbidden")

ListErrors == {Nil, <<"the server could not find the requested resource">>,
               <<"connection refused">>}

\* a probe that reports the API listable whatever the list call answered
ClusterReadyProbeAlwaysReady(listErr) == [ok |-> TRUE, err |-> Nil]

\* the probe of waitForClusterResourceReady, given the error of the list
ClusterReadyProbe(listErr) ==
    IF listErr = Nil THEN [ok |-> TRUE, err |-> Nil]
                     ELSE [ok |-> FALSE, err |-> Nil]

InitClusterReady ==
    /\ cr = PollStart
    /\ cr_listed = FALSE

\* one probe: list the clusters, poll on
ClusterReadyTick ==
    /\ ~cr.done
    /\ \E listErr \in ListErrors :
         LET r == ClusterReadyProbe(listErr)
         IN  /\ cr' = PollImmediate(cr, retryIntervalResourceReady,
                                    timeoutResourceReady, r.ok, r.err)
             /\ cr_listed' = (cr_listed \/ listErr = Nil)
    /\ UNCHANGED notCr

NextClusterReady == ClusterReadyTick

InitSpecClusterReady ==
    /\ InitClusterReady /\ IdleCreate /\ IdleManifest /\ IdleStatuses
    /\ IdleMachineReady /\ IdleDeleteKinds /\ IdleForceDelete
    /\ IdleForCluster /\ IdleGetKinds /\ IdleDeleteObject /\ IdleValidate
    /\ IdleExtract /\ IdleUpdateEndpoint /\ IdleStore /\ IdleCreateObjects
    /\ IdleGetCluster

\* the poll loop runs on its own goroutine and timer: a tick that can be
\* taken is taken
SpecClusterReady ==
    InitSpecClusterReady /\ [][NextClusterReady]_vars /\ WF_vars(NextClusterReady)

\* C8: a poll whose probe never succeeds ends with the timeout error once
\* the timeout has elapsed and never with success: while no list call of
\* WaitForClusterV1alpha1Ready has succeeded the wait has not reported
\* success, when it is over it returned the timeout error with the whole
\* timeout elapsed, and the wait always comes to an end.
C8_TimesOut ==
    /\ [](~cr_listed =>
            /\ cr.probes * retryIntervalResourceReady <= timeoutResourceReady
            /\ cr.done =>
                 /\ cr.result = ErrWaitTimeout
                 /\ cr.elapsed >= timeoutResourceReady)
    /\ []((cr.done /\ cr.result = Nil) => cr_listed)
    /\ <>(cr.done)

\* every list call failed and the wait ended with the timeout error
C8_Witness ==
    /\ cr.done
    /\ ~cr_listed
    /\ cr.result = ErrWaitTimeout
    /\ cr.probes * retryIntervalResourceReady = timeoutResourceReady

(***************************************************************************)
(* WaitForResourceStatuses (clusterclient.go 975-1044).                    *)
(*                                                                         *)
(* An object of the store is a record [kind, status]; a status is a record *)
(* that says whether ProviderStatus is set and whether any other field of  *)
(* the status differs from its zero value.  MachineDeployment and          *)
(* MachineSet statuses have no ProviderStatus.  One probe makes four list  *)
(* calls, in the order of KindOrder; the store may change between them.    *)
(***************************************************************************)
KindOrder == <<"Cluster", "MachineDeployment", "MachineSet", "Machine">>

Statuses == [providerStatus : BOOLEAN, other : BOOLEAN]

EmptyStatus == [providerStatus |-> FALSE, other |-> FALSE]

Objects ==
    {o \in [kind : {"Cluster", "MachineDeployment", "MachineSet", "Machine"},
            status : Statuses] :
        o.kind \in {"MachineDeployment", "MachineSet"} => ~o.status.providerStatus}

\* reflect.DeepEqual(clusterv1.<Kind>Status{}, obj.Status)
StatusIsEmpty(st) == st = EmptyStatus

\* a check of machines that does not look at ProviderStatus
ObjectPassesNoProviderCheck(o) ==
    IF o.kind = "Cluster"
      THEN ~StatusIsEmpty(o.status) /\ o.status.providerStatus
      ELSE ~StatusIsEmpty(o.status)

\* the checks the probe makes on one listed object of each kind
ObjectPasses(o) ==
    CASE o.kind = "Cluster" ->
           ~StatusIsEmpty(o.status) /\ o.status.providerStatus
      [] o.kind = "MachineDeployment" -> ~StatusIsEmpty(o.status)
      [] o.kind = "MachineSet" -> ~StatusIsEmpty(o.status)
      [] o.kind = "Machine" ->
           ~StatusIsEmpty(o.status) /\ o.status.providerStatus

\* <Kind>s("").List(metav1.ListOptions{}): the objects of the kind
ListKind(kind) == {o \in store : o.kind = kind}

InitStatuses ==
    /\ store \in {st \in SUBSET Objects : Cardinality(st) <= MaxObjs}
    /\ rs = PollStart
    /\ rs_k = 1
    /\ rs_listed = {}
    /\ rs_failed = FALSE

\* a probe that asks for one object at least of every kind
ListPassesNonEmpty(listed) ==
    listed # {} /\ \A o \in listed : ObjectPasses(o)

\* for _, o := range list.Items { ... return false, nil ... }: no listed
\* object fails its check
ListPasses(listed) == \A o \in listed : ObjectPasses(o)

\* a probe that hands the error of a failed list call to the poll
ListFailureAborts(listErr) == listErr

\* if err != nil { ...; return false, nil }: the error the probe answers
\* with after a failed list call
ListFailure(listErr) == Nil

\* one list call of the probe and the checks on what it listed.  (Before
\* the first list call the probe also lists the clusters through the
\* controller-runtime client, line 988, and ignores the outcome.)
StatusesListStep ==
    /\ ~rs.done
    /\ \E listErr \in ListErrors :
         LET listed == ListKind(KindOrder[rs_k])
             notYet == listErr # Nil \/ ~ListPasses(listed)
         IN  IF notYet
               THEN /\ rs' = PollImmediate(rs, retryIntervalResourceReady,
                                           timeoutResourceReady, FALSE,
                                           IF listErr # Nil
                                             THEN ListFailure(listErr)
                                             ELSE Nil)
                    /\ rs_k' = 1
                    /\ rs_listed' = {}
                    /\ rs_failed' = (listErr # Nil)
             ELSE IF rs_k < Len(KindOrder)
               THEN /\ rs_k' = rs_k + 1
                    /\ rs_listed' = rs_listed \cup listed
                    /\ rs' = rs
                    /\ rs_failed' = FALSE
             ELSE /\ rs' = PollImmediate(rs, retryIntervalResourceReady,
                                         timeoutResourceReady, TRUE, Nil)
                  /\ rs_listed' = rs_listed \cup listed
                  /\ rs_k' = rs_k
                  /\ rs_failed' = FALSE
    /\ UNCHANGED store
    /\ UNCHANGED notRs

\* a user or a controller creates an object or writes its status
StorePut ==
    /\ ~rs.done
    /\ \E o \in Objects :
         /\ o \notin store
         /\ Cardinality(store) < MaxObjs
         /\ store' = store \cup {o}
    /\ UNCHANGED <<rs, rs_k, rs_listed, rs_failed>>
    /\ UNCHANGED notRs

\* an object goes away
StoreRemove ==
    /\ ~rs.done
    /\ \E o \in store : store' = store \ {o}
    /\ UNCHANGED <<rs, rs_k, rs_listed, rs_failed>>
    /\ UNCHANGED notRs

NextStatuses == StatusesListStep \/ StorePut \/ StoreRemove

InitSpecStatuses ==
    /\ InitStatuses /\ IdleCreate /\ IdleManifest /\ IdleClusterReady
    /\ IdleMachineReady /\ IdleDeleteKinds /\ IdleForceDelete
    /\ IdleForCluster /\ IdleGetKinds /\ IdleDeleteObject /\ IdleValidate
    /\ IdleExtract /\ IdleUpdateEndpoint /\ IdleStore /\ IdleCreateObjects
    /\ IdleGetCluster

SpecStatuses == InitSpecStatuses /\ [][NextStatuses]_vars

(***************************************************************************)
(* Claims about WaitForResourceStatuses.                                   *)
(***************************************************************************)
\* the status an object must have for the wait to count it as settled
Populated(o) ==
    /\ o.status # EmptyStatus
    /\ o.kind \in {"Cluster", "Machine"} => o.status.providerStatus

\* C6: a probe of WaitForResourceStatuses reports ready only when every
\* Cluster and every Machine it listed has a non-empty status with
\* ProviderStatus set and every MachineDeployment and MachineSet it listed
\* has a non-empty status: the objects a running probe has got past all
\* pass, and when the wait has returned success its last probe made all
\* four list calls and listed no object that fails its check (rs_listed
\* then holds all that this probe listed); otherwise the wait ends only
\* with the timeout error.
C6_ReadyOnlyWhenAllPopulated ==
    /\ \A o \in rs_listed : Populated(o)
    /\ (rs.done /\ rs.result = Nil) => rs_k = Len(KindOrder)
    /\ (rs.done /\ rs.result # Nil) => rs.result = ErrWaitTimeout

\* success with a cluster and a machine listed, both with ProviderStatus
C6_Witness ==
    /\ rs.done
    /\ rs.result = Nil
    /\ rs.probes >= 2
    /\ \E c \in rs_listed : c.kind = "Cluster"
    /\ \E m \in rs_listed : m.kind = "Machine"

\* C32: a failed list call never ends WaitForResourceStatuses with its
\* error: the probe that made it answers not-yet, after which the wait is
\* either still polling, from the first list call again, or over with the
\* timeout error once the resource-ready timeout has elapsed; and the wait
\* never returns any error but the timeout error.
C32_ListFailureIsNotYet ==
    /\ rs_failed =>
          /\ rs.probes >= 1
          /\ rs_k = 1
          /\ rs.done => /\ rs.result = ErrWaitTimeout
                        /\ rs.elapsed >= timeoutResourceReady
          /\ ~rs.done => rs.elapsed < timeoutResourceReady
    /\ rs.done => rs.result \in {Nil, ErrWaitTimeout}

\* the wait ran out of time on a probe whose list call failed
C32_Witness ==
    /\ rs_failed
    /\ rs.done
    /\ rs.result = ErrWaitTimeout
    /\ rs.probes > 1

\* C33: with no object in the store, every list call of the first probe
\* that does not fail goes on to the next kind, and the fourth ends the
\* wait with success on that first probe.
C33_EmptyStoreReadyAtOnce ==
    [][(store = {} /\ rs.probes = 0 /\ ~rs.done /\ store' = store
          /\ <<rs, rs_k>> # <<rs', rs_k'>> /\ ~rs_failed')
        => IF rs_k < Len(KindOrder)
             THEN rs_k' = rs_k + 1 /\ rs' = rs
             ELSE rs'.done /\ rs'.result = Nil /\ rs'.probes = 1]_vars

\* success on the first probe with nothing in the store and nothing listed
C33_Witness ==
    /\ store = {}
    /\ rs_listed = {}
    /\ rs.done
    /\ rs.result = Nil
    /\ rs.probes = 1

(***************************************************************************)
(* waitForMachineReady (clusterclient.go 1255-1290), handed a machine.     *)
(*                                                                         *)
(* A machine is a record: whether Status.NodeRef is set, and the number of *)
(* its annotations.  The wait holds its own copy of the machine, which a   *)
(* successful fetch overwrites with the machine at the API server.         *)
(***************************************************************************)
Machines == [nodeRef : BOOLEAN, annotations : 0..MaxAnnotations]

\* how clientset.Get may end
GetOutcomes == {"ok", "notfound", "error"}

\* a probe that asks for a node reference and an annotation
MachineReadyProbeBoth(outcome, machine) ==
    IF outcome = "error"
      THEN [ok |-> FALSE, err |-> Nil]
      ELSE [ok |-> machine.nodeRef /\ machine.annotations > 0, err |-> Nil]

\* the probe, given how the fetch ended and the machine it holds after it:
\* err != nil && !apierrors.IsNotFound(err) is "not yet"; otherwise the
\* machine decides.
MachineReadyProbe(outcome, machine) ==
    IF outcome # "ok" /\ outcome # "notfound"
      THEN [ok |-> FALSE, err |-> Nil]
      ELSE [ok |-> machine.nodeRef \/ machine.annotations > 0, err |-> Nil]

\* the characters a value of the environment variable is made of; a value
\* is a sequence of characters, the unset variable and the empty value are
\* both the empty sequence (os.Getenv)
EnvChars == {"2", "-", "+", "x"}

EnvValues == UNION {[1..n -> EnvChars] : n \in 0..MaxEnvLen}

Digits == {"0", "1", "2", "3", "4", "5", "6", "7", "8", "9"}

DigitValue(c) ==
    CASE c = "0" -> 0 [] c = "1" -> 1 [] c = "2" -> 2 [] c = "3" -> 3
      [] c = "4" -> 4 [] c = "5" -> 5 [] c = "6" -> 6 [] c = "7" -> 7
      [] c = "8" -> 8 [] c = "9" -> 9

\* strconv.ErrSyntax
ErrSyntax == <<"invalid syntax">>

RECURSIVE AtoiDigits(_, _)
\* the digits s read from the left, n being the value read so far
AtoiDigits(s, n) ==
    IF s = <<>> THEN n ELSE AtoiDigits(Tail(s), n * 10 + DigitValue(Head(s)))

\* strconv.Atoi(s): an optional sign, then one digit or more and nothing
\* else
Atoi(s) ==
    LET signed == s # <<>> /\ Head(s) \in {"+", "-"}
        body == IF signed THEN Tail(s) ELSE s
    IN  IF body = <<>> \/ \E i \in 1..Len(body) : body[i] \notin Digits
          THEN [val |-> 0, err |-> ErrSyntax]
          ELSE [val |-> IF signed /\ Head(s) = "-"
                          THEN 0 - AtoiDigits(body, 0)
                          ELSE AtoiDigits(body, 0),
                err |-> Nil]

\* an override that takes the number for seconds
MachineReadyTimeoutInSeconds(timeout, p) ==
    IF p # <<>> /\ Atoi(p).err = Nil THEN Atoi(p).val ELSE timeout

\* the timeout after the override: lines 1263-1270
MachineReadyTimeout(timeout, p) ==
    IF p # <<>> /\ Atoi(p).err = Nil THEN Atoi(p).val * Minute ELSE timeout

InitMachineReady ==
    /\ mr = PollStart
    /\ mr_machine \in Machines
    /\ mr_store \in {{}} \cup {{m} : m \in Machines}
    /\ mr_get = "none"
    /\ mr_tickReady = FALSE
    /\ mr_env \in EnvValues
    /\ mr_timeout = timeoutMachineReady
    /\ mr_pc = "start"

\* the environment variable is read and the poll is entered
MachineReadyStart ==
    /\ mr_pc = "start"
    /\ mr_timeout' = MachineReadyTimeout(mr_timeout, mr_env)
    /\ mr_pc' = "polling"
    /\ UNCHANGED <<mr, mr_machine, mr_store, mr_get, mr_tickReady, mr_env>>
    /\ UNCHANGED notMr

\* one probe: fetch the machine, decide
MachineReadyTick ==
    /\ mr_pc = "polling"
    /\ ~mr.done
    /\ \E outcome \in GetOutcomes :
         /\ outcome = "ok" => mr_store # {}
         /\ outcome = "notfound" => mr_store = {}
         /\ LET fetched == IF outcome = "ok"
                             THEN CHOOSE m \in mr_store : TRUE
                             ELSE mr_machine
                r == MachineReadyProbe(outcome, fetched)
            IN  /\ mr_machine' = fetched
                /\ mr_get' = outcome
                /\ mr_tickReady' = r.ok
                /\ mr' = PollImmediate(mr, retryIntervalResourceReady,
                                       mr_timeout, r.ok, r.err)
    /\ UNCHANGED <<mr_store, mr_env, mr_timeout, mr_pc>>
    /\ UNCHANGED notMr

\* the machine at the API server is created, changed or removed
MachineChanges ==
    /\ ~mr.done
    /\ \E st \in {{}} \cup {{m} : m \in Machines} :
         /\ st # mr_store
         /\ mr_store' = st
    /\ UNCHANGED <<mr, mr_machine, mr_get, mr_tickReady, mr_env, mr_timeout,
                   mr_pc>>
    /\ UNCHANGED notMr

NextMachineReady == MachineReadyStart \/ MachineReadyTick \/ MachineChanges

InitSpecMachineReady ==
    /\ InitMachineReady /\ IdleCreate /\ IdleManifest /\ IdleClusterReady
    /\ IdleStatuses /\ IdleDeleteKinds /\ IdleForceDelete /\ IdleForCluster
    /\ IdleGetKinds /\ IdleDeleteObject /\ IdleValidate /\ IdleExtract
    /\ IdleUpdateEndpoint /\ IdleStore /\ IdleCreateObjects /\ IdleGetCluster

SpecMachineReady == InitSpecMachineReady /\ [][NextMachineReady]_vars

(***************************************************************************)
(* Claims about waitForMachineReady.                                       *)
(***************************************************************************)
HasNodeRefOrAnnotation(m) == m.nodeRef \/ m.annotations >= 1

\* C5 (as claimed): every probe reports ready exactly when the machine has
\* a node reference or at least one annotation.
C5_ReadyIffNodeRefOrAnnotation ==
    mr.probes >= 1 => (mr_tickReady <=> HasNodeRefOrAnnotation(mr_machine))

\* C5 (amended): a probe reports ready exactly when its fetch did not fail
\* with an error other than not-found and the machine it then holds has a
\* node reference or at least one annotation; a probe whose fetch failed
\* with such an error reports not-yet whatever the machine carries.  A
\* probe that reports ready ends the wait with success; after a probe that
\* reports not-yet the wait goes on, and is over only with the timeout
\* error once the machine-ready timeout has elapsed.
C5_ReadyIffFetchedAndNodeRefOrAnnotation ==
    mr.probes >= 1 =>
       /\ mr_tickReady <=> (mr_get # "error" /\ HasNodeRefOrAnnotation(mr_machine))
       /\ mr_tickReady <=> (mr.done /\ mr.result = Nil)
       /\ (~mr_tickReady /\ mr.done) =>
             /\ mr.result = ErrWaitTimeout
             /\ mr.elapsed >= mr_timeout

\* not-yet on the first probe, whose fetch failed although the machine held
\* an annotation; ready on a later probe that fetched a machine with an
\* annotation and no node reference
C5_Witness ==
    /\ mr.done
    /\ mr.result = Nil
    /\ mr.probes >= 2
    /\ mr_get = "ok"
    /\ ~mr_machine.nodeRef
    /\ mr_machine.annotations >= 1

\* the decimal digit of a number below ten
DigitChar(n) ==
    CASE n = 0 -> "0" [] n = 1 -> "1" [] n = 2 -> "2" [] n = 3 -> "3"
      [] n = 4 -> "4" [] n = 5 -> "5" [] n = 6 -> "6" [] n = 7 -> "7"
      [] n = 8 -> "8" [] n = 9 -> "9"

RECURSIVE Decimal(_)
\* a natural number written in decimal
Decimal(n) ==
    IF n < 10 THEN <<DigitChar(n)>>
              ELSE Decimal(n \div 10) \o <<DigitChar(n % 10)>>

\* p is a numeral: a sign or none, then digits, one at least
IsNumeral(p) ==
    \E k \in 0..1 :
       /\ Len(p) > k
       /\ k = 1 => p[1] \in {"+", "-"}
       /\ \A i \in (k + 1)..Len(p) : p[i] \in Digits

\* the ways of writing the integer n in at most MaxEnvLen characters: its
\* decimal form, zeros in front allowed, under a sign or, when n is not
\* negative, under none
Numerals(n) ==
    UNION {LET digits == [i \in 1..zeros |-> "0"] \o
                           Decimal(IF n < 0 THEN 0 - n ELSE n)
           IN  (IF n >= 0 THEN {digits, <<"+">> \o digits} ELSE {}) \cup
               (IF n <= 0 THEN {<<"-">> \o digits} ELSE {})
           : zeros \in 0..MaxEnvLen}

\* C24: once the poll is entered, the timeout is 30 minutes unless the
\* variable holds a string that is an integer written out, and then it is
\* that many minutes; an unset, empty or unparsable value keeps the default
\* and does not fail the wait, which ends only with success or, when that
\* timeout has elapsed, with the timeout error.
C24_TimeoutOverride ==
    /\ mr_pc = "start" => ~mr.done
    /\ mr_pc = "polling" =>
         /\ IF IsNumeral(mr_env)
              THEN \E n \in {mr_timeout \div 60} :
                      /\ mr_timeout = n * 60
                      /\ mr_env \in Numerals(n)
              ELSE mr_timeout = 30 * 60
         /\ mr.done => mr.result \in {Nil, ErrWaitTimeout}
         /\ (mr.done /\ mr.result = ErrWaitTimeout) =>
               /\ mr.elapsed >= mr_timeout
               /\ mr.elapsed - retryIntervalResourceReady < mr_timeout
                    \/ mr.probes = 1

\* a wait under the value "2" that ran out of time after two minutes
C24_Witness ==
    /\ mr_env = <<"2">>
    /\ mr.done
    /\ mr.result = ErrWaitTimeout
    /\ mr.elapsed = 120

\* C31: a probe whose fetch was answered with not-found reports not-yet, so
\* that a machine absent from the store is never reported ready.
C31_AbsentNeverReady ==
    (mr.probes >= 1 /\ mr_get = "notfound") => ~mr_tickReady


(***************************************************************************)
(* DeleteClusters, DeleteMachineClasses, DeleteMachineDeployments,         *)
(* DeleteMachineSets, DeleteMachines (clusterclient.go 640-839) and the    *)
(* waits waitFor<Kind>Delete (1046-1153).                                  *)
(*                                                                         *)
(* The five functions have one shape.  With a namespace argument, seen     *)
(* holds that namespace.  Without one, the objects of the kind are listed  *)
(* over all namespaces and the loop over the items fills seen and          *)
(* <kind>sToDelete.  The range loop over seen then calls clientset.Delete  *)
(* with <kind>sToDelete[ns] and waits for the list to be empty.            *)
(*                                                                         *)
(* <kind>sToDelete maps a namespace to a pointer to a list and starts      *)
(* empty.  A lookup of a missing key yields the nil pointer; the first     *)
(* item of the loop at 659-664 reads .Items through that pointer, which is *)
(* a nil dereference: the goroutine panics before the map gets an entry.   *)
(* So wherever the map is read it is empty.                                *)
(*                                                                         *)
(* clientset.Delete and clientset.List are calls of the controller-runtime *)
(* client, whose code is outside the repository: either may fail, and a    *)
(* Delete that is handed the nil list names no object and removes none.    *)
(* Objects leave the store when another actor of the cluster removes them. *)
(***************************************************************************)
DeleteKinds ==
    {"Cluster", "MachineClass", "MachineDeployment", "MachineSet", "Machine"}

Namespaces == {"ns1", "ns2"}

\* the objects a store may hold of the given kinds
StoreObjects(kinds) ==
    [kind : kinds, namespace : Namespaces, name : 1..MaxNames]

\* the kind whose list the wait of Delete<Kind>s polls: DeleteMachines calls
\* waitForMachineSetsDelete (line 832)
PolledKind(kind) == IF kind = "Machine" THEN "MachineSet" ELSE kind

\* a nil pointer to a list
NilList == [nil |-> TRUE, items |-> {}]

\* <kind>sToDelete[ns]
ToDelete(ns) == NilList

\* clientset.List(ctx, list) without options: every namespace
ListItems(kind) == {o \in dk_store : o.kind = kind}

\* what clientset.Delete may answer with
DeleteErrors == {Nil, <<"the delete call was refused">>}

\* the store after clientset.Delete(ctx, target)
DeleteEffect(st, target) == st \ target.items

Quoted(ns) == "\"" \o ns \o "\""

ListAllMsg(kind) == "error listing " \o kind \o "s in all namespaces"

DeleteMsg(kind, ns) ==
    "error deleting "
      \o (IF kind = "MachineClass" THEN "MachineClasses" ELSE kind \o "s")
      \o " in namespace " \o Quoted(ns)

WaitMsg(kind, ns) ==
    IF kind = "MachineClass"
      THEN "error waiting for MachineClass(es) deletion to complete in ns "
             \o Quoted(ns)
      ELSE "error waiting for " \o kind
             \o "(s) deletion to complete in namespace " \o Quoted(ns)

\* the namespace argument of the running call
FrameNamespace == IF dk_depth = 0 THEN dk_arg ELSE dk_ns

\* a loop body that polls the list before it calls Delete
LoopEntryWaitsFirst(kind) == "wait"

\* where the body of the range loop starts: DeleteMachineClasses calls
\* itself (line 707), the others call clientset.Delete
LoopEntry(kind) == IF kind = "MachineClass" THEN "recurse" ELSE "delete"

\* a loop that goes on to the next step when a call of its body failed
LoopResultGoesOn(e, msg) == [pc |-> "next", ret |-> Nil]

\* the if err != nil { return errors.Wrapf(err, ...) } after a call of the
\* loop body that answered e
LoopResult(e, msg) ==
    IF e # Nil THEN [pc |-> "returned", ret |-> Wrapf(e, msg)]
               ELSE [pc |-> "next", ret |-> Nil]

\* a probe that ends the wait with the wrapped list error whatever the kind
DeleteProbeAlwaysAborts(kind, ns, listErr) ==
    LET items == ListItems(PolledKind(kind))
    IN  IF listErr # Nil
          THEN [ok |-> FALSE,
                err |-> Wrapf(listErr,
                          "error listing cluster objects in namespace "
                            \o Quoted(ns))]
          ELSE [ok |-> items = {}, err |-> Nil]

\* the probe of the wait of Delete<Kind>s: the namespace is used in the
\* message of waitForClusterDelete only
DeleteProbe(kind, ns, listErr) ==
    LET items == ListItems(PolledKind(kind))
    IN  IF listErr # Nil
          THEN IF kind = "Cluster"
                 THEN [ok |-> FALSE,
                       err |-> Wrapf(listErr,
                                 "error listing cluster objects in namespace "
                                   \o Quoted(ns))]
                 ELSE [ok |-> FALSE, err |-> Nil]
          ELSE [ok |-> items = {}, err |-> Nil]

InitDeleteKinds ==
    /\ dk_kind \in DeleteKinds
    /\ dk_arg \in {""} \cup Namespaces
    /\ dk_store \in SUBSET StoreObjects({dk_kind, PolledKind(dk_kind)})
    /\ dk_pc = "called"
    /\ dk_depth = 0
    /\ dk_listed = {}
    /\ dk_seen = {}
    /\ dk_ns = ""
    /\ dk_deletes = <<>>
    /\ dk_poll = PollStart
    /\ dk_lastList = [kind |-> "none", err |-> Nil, n |-> 0]
    /\ dk_done = {}
    /\ dk_fail = Nil
    /\ dk_ret = Nil

\* lines 648-665: fill seen
DeleteStart ==
    /\ dk_pc = "called"
    /\ IF FrameNamespace # ""
         THEN /\ dk_seen' = {FrameNamespace}
              /\ dk_pc' = "loop"
              /\ UNCHANGED <<dk_listed, dk_ret>>
         ELSE \E listErr \in ListErrors :
                IF listErr # Nil
                  THEN /\ dk_ret' = Wrapf(listErr, ListAllMsg(dk_kind))
                       /\ dk_pc' = "returned"
                       /\ UNCHANGED <<dk_listed, dk_seen>>
                ELSE IF ListItems(dk_kind) # {}
                  \* the first item: <kind>sToDelete[ns].Items, nil pointer
                  THEN /\ dk_listed' = ListItems(dk_kind)
                       /\ dk_pc' = "crashed"
                       /\ UNCHANGED <<dk_seen, dk_ret>>
                ELSE /\ dk_listed' = {}
                     /\ dk_seen' = {}
                     /\ dk_pc' = "loop"
                     /\ UNCHANGED dk_ret
    /\ UNCHANGED <<dk_kind, dk_arg, dk_store, dk_depth, dk_ns, dk_deletes,
                   dk_poll, dk_lastList, dk_done, dk_fail>>
    /\ UNCHANGED notDk

\* for ns := range seen: the next key, in the order the map yields them, or
\* the return nil after the loop
DeleteLoop ==
    /\ dk_pc = "loop"
    /\ IF dk_seen = {}
         THEN /\ dk_pc' = "returned"
              /\ dk_ret' = Nil
              /\ UNCHANGED <<dk_seen, dk_ns, dk_poll>>
         ELSE \E ns \in dk_seen :
                /\ dk_ns' = ns
                /\ dk_seen' = dk_seen \ {ns}
                /\ dk_poll' = PollStart
                /\ dk_pc' = LoopEntry(dk_kind)
                /\ UNCHANGED dk_ret
    /\ UNCHANGED <<dk_kind, dk_arg, dk_store, dk_depth, dk_listed, dk_deletes,
                   dk_lastList, dk_done, dk_fail>>
    /\ UNCHANGED notDk

\* line 707: c.DeleteMachineClasses(ns), a new call with a namespace
DeleteRecurse ==
    /\ dk_pc = "recurse"
    /\ dk_depth < MaxDepth
    /\ dk_depth' = dk_depth + 1
    /\ dk_pc' = "called"
    /\ UNCHANGED <<dk_kind, dk_arg, dk_store, dk_listed, dk_seen, dk_ns,
                   dk_deletes, dk_poll, dk_lastList, dk_done, dk_fail, dk_ret>>
    /\ UNCHANGED notDk

\* line 707 with the stack of the goroutine used up: the runtime ends the
\* process
DeleteStackOverflow ==
    /\ dk_pc = "recurse"
    /\ dk_depth = MaxDepth
    /\ dk_pc' = "crashed"
    /\ UNCHANGED <<dk_kind, dk_arg, dk_store, dk_depth, dk_listed, dk_seen,
                   dk_ns, dk_deletes, dk_poll, dk_lastList, dk_done, dk_fail,
                   dk_ret>>
    /\ UNCHANGED notDk

\* lines 667-670: clientset.Delete(ctx, <kind>sToDelete[ns])
DeleteCall ==
    /\ dk_pc = "delete"
    /\ \E e \in DeleteErrors :
         LET r == LoopResult(e, DeleteMsg(dk_kind, dk_ns))
         IN  /\ dk_deletes' =
                  Append(dk_deletes, [ns |-> dk_ns, target |-> ToDelete(dk_ns)])
             /\ dk_store' = IF e = Nil
                              THEN DeleteEffect(dk_store, ToDelete(dk_ns))
                              ELSE dk_store
             /\ dk_fail' = e
             /\ dk_ret' = r.ret
             /\ dk_pc' = IF r.pc = "returned" THEN "returned" ELSE "wait"
    /\ UNCHANGED <<dk_kind, dk_arg, dk_depth, dk_listed, dk_seen, dk_ns,
                   dk_poll, dk_lastList, dk_done>>
    /\ UNCHANGED notDk

\* lines 671-674: one probe of waitFor<Kind>Delete(ns) and, when the poll is
\* over, the test of its result
DeleteWaitTick ==
    /\ dk_pc = "wait"
    /\ \E listErr \in ListErrors :
         LET r == DeleteProbe(dk_kind, dk_ns, listErr)
             p == PollImmediate(dk_poll, retryIntervalResourceDelete,
                                timeoutResourceDelete, r.ok, r.err)
             l == LoopResult(p.result, WaitMsg(dk_kind, dk_ns))
         IN  /\ dk_poll' = p
             /\ dk_lastList' =
                  [kind |-> PolledKind(dk_kind), err |-> listErr,
                   n |-> IF listErr = Nil
                           THEN Cardinality(ListItems(PolledKind(dk_kind)))
                           ELSE 0]
             /\ IF ~p.done
                  THEN UNCHANGED <<dk_pc, dk_done, dk_fail, dk_ret>>
                  ELSE /\ dk_fail' = p.result
                       /\ dk_ret' = l.ret
                       /\ dk_done' = IF p.result = Nil
                                       THEN dk_done \cup {dk_ns}
                                       ELSE dk_done
                       /\ dk_pc' = IF l.pc = "returned" THEN "returned"
                                                        ELSE "loop"
    /\ UNCHANGED <<dk_kind, dk_arg, dk_store, dk_depth, dk_listed, dk_seen,
                   dk_ns, dk_deletes>>
    /\ UNCHANGED notDk

\* another actor of the cluster removes an object while the call runs
ObjectGone ==
    /\ dk_pc \in {"called", "loop", "delete", "recurse", "wait"}
    /\ \E o \in dk_store : dk_store' = dk_store \ {o}
    /\ UNCHANGED <<dk_kind, dk_arg, dk_pc, dk_depth, dk_listed, dk_seen, dk_ns,
                   dk_deletes, dk_poll, dk_lastList, dk_done, dk_fail, dk_ret>>
    /\ UNCHANGED notDk

NextDeleteKinds ==
    \/ DeleteStart
    \/ DeleteLoop
    \/ DeleteRecurse
    \/ DeleteStackOverflow
    \/ DeleteCall
    \/ DeleteWaitTick
    \/ ObjectGone

\* the steps of the call itself
DeleteKindsStep ==
    \/ DeleteStart
    \/ DeleteLoop
    \/ DeleteRecurse
    \/ DeleteStackOverflow
    \/ DeleteCall
    \/ DeleteWaitTick

InitSpecDeleteKinds ==
    /\ InitDeleteKinds /\ IdleCreate /\ IdleManifest /\ IdleClusterReady
    /\ IdleStatuses /\ IdleMachineReady /\ IdleForceDelete /\ IdleForCluster
    /\ IdleGetKinds /\ IdleDeleteObject /\ IdleValidate /\ IdleExtract
    /\ IdleUpdateEndpoint /\ IdleStore /\ IdleCreateObjects /\ IdleGetCluster

\* the call runs on a goroutine that is scheduled: a step it can take is
\* taken
SpecDeleteKinds ==
    InitSpecDeleteKinds /\ [][NextDeleteKinds]_vars /\ WF_vars(DeleteKindsStep)

\* the objects of a kind a store holds in a namespace
InNamespace(st, kind, ns) == {o \in st : o.kind = kind /\ o.namespace = ns}

\* C11: Delete<Kind>s called with an empty namespace does not crash, and
\* when it has returned nil then for every namespace that held an object of
\* the kind in the list over all namespaces a delete was issued whose target
\* is the list of all of that namespace's objects of the kind, and the wait
\* of that namespace has succeeded.
C11_AllNamespacesDeleted ==
    dk_arg = "" =>
      /\ dk_pc # "crashed"
      /\ (dk_pc = "returned" /\ dk_ret = Nil) =>
           \A ns \in {o.namespace : o \in dk_listed} :
             /\ ns \in dk_done
             /\ \E i \in 1..Len(dk_deletes) :
                  /\ dk_deletes[i].ns = ns
                  /\ ~dk_deletes[i].target.nil
                  /\ dk_deletes[i].target.items =
                       InNamespace(dk_listed, dk_kind, ns)

\* C12: Delete<Kind>s called with a namespace issues a delete for that
\* namespace before it returns nil, every delete it issues is for that
\* namespace and targets a list of objects of the kind in it, and a delete
\* call leaves the objects of the other namespaces as they were.
C12_ScopedToNamespace ==
    /\ [](dk_arg # "" =>
            /\ (dk_pc = "returned" /\ dk_ret = Nil) => Len(dk_deletes) >= 1
            /\ \A i \in 1..Len(dk_deletes) :
                 /\ dk_deletes[i].ns = dk_arg
                 /\ ~dk_deletes[i].target.nil
                 /\ \A o \in dk_deletes[i].target.items :
                      o.kind = dk_kind /\ o.namespace = dk_arg)
    /\ [][(dk_arg # "" /\ Len(dk_deletes') > Len(dk_deletes)) =>
            {o \in dk_store' : o.namespace # dk_arg}
              = {o \in dk_store : o.namespace # dk_arg}]_vars

\* C13: the wait of a namespace is reported as succeeded only by a probe,
\* made after the delete call of that namespace, whose list of the kind of
\* the call succeeded and returned no item; and a wait that ran out of time
\* ends the call with an error.
C13_SuccessOnlyAfterEmptyList ==
    /\ [][dk_done' # dk_done =>
            /\ \E i \in 1..Len(dk_deletes) : dk_deletes[i].ns = dk_ns
            /\ dk_lastList'.kind = dk_kind
            /\ dk_lastList'.err = Nil
            /\ dk_lastList'.n = 0]_vars
    /\ []((dk_poll.done /\ dk_poll.result = ErrWaitTimeout) =>
            (dk_pc = "returned" /\ dk_ret # Nil))

\* C14: a probe of the wait of a namespace whose list call succeeds while
\* the namespace holds no object of the polled kind ends the wait with
\* success, whatever the other namespaces hold.
C14_OtherNamespacesDoNotDelay ==
    [][(/\ dk_pc = "wait"
        /\ dk_poll'.probes = dk_poll.probes + 1
        /\ dk_lastList'.err = Nil
        /\ InNamespace(dk_store, PolledKind(dk_kind), dk_ns) = {}) =>
         (dk_poll'.done /\ dk_poll'.result = Nil)]_vars

\* C15: when DeleteMachines has returned nil after the wait of a namespace,
\* no Machine remains in that namespace.
C15_NoMachineRemains ==
    (dk_kind = "Machine" /\ dk_pc = "returned" /\ dk_ret = Nil) =>
      \A ns \in dk_done : InNamespace(dk_store, "Machine", ns) = {}

C18_MachineClassesTerminates ==
    (dk_kind = "MachineClass") => <>(dk_pc = "returned")

\* the message waitForClusterDelete wraps a list error in
ListClusterMsg(ns) ==
    "error listing cluster objects in namespace " \o Quoted(ns)

\* C36: a probe of the wait after a delete whose list call failed ends the
\* wait of DeleteClusters at once, and the call returns the list error
\* wrapped in the message of the list and in the message of the wait; for
\* the other kinds the probe is not an error and not a success, so that the
\* wait goes on polling and ends on such a probe only when the delete
\* timeout has passed, with the timeout error.
C36_ListFailurePerKind ==
    /\ [](\A kind \in DeleteKinds \ {"Cluster"} :
            \A ns \in Namespaces :
              \A e \in ListErrors \ {Nil} :
                LET r == DeleteProbe(kind, ns, e)
                IN  ~r.ok /\ r.err = Nil)
    /\ [][(/\ dk_pc = "wait"
           /\ dk_poll'.probes = dk_poll.probes + 1
           /\ dk_lastList'.err # Nil) =>
            IF dk_kind = "Cluster"
              THEN /\ dk_poll'.done
                   /\ dk_poll'.result =
                        Wrapf(dk_lastList'.err, ListClusterMsg(dk_ns))
                   /\ dk_pc' = "returned"
                   /\ dk_ret' = Wrapf(dk_poll'.result,
                                      WaitMsg(dk_kind, dk_ns))
              ELSE /\ dk_poll'.elapsed =
                        dk_poll.elapsed + retryIntervalResourceDelete
                   /\ dk_poll'.done <=>
                        dk_poll'.elapsed >= timeoutResourceDelete
                   /\ dk_poll'.done => dk_poll'.result = ErrWaitTimeout
                   /\ ~dk_poll'.done => dk_pc' = "wait"]_vars

\* the wait of DeleteClusters ended by its first probe, whose list call
\* failed, before any time of the wait had passed
C36_Witness ==
    /\ dk_kind = "Cluster"
    /\ dk_pc = "returned"
    /\ dk_lastList.err # Nil
    /\ dk_poll.probes = 1
    /\ dk_poll.elapsed = 0
    /\ dk_ret = Wrapf(Wrapf(dk_lastList.err, ListClusterMsg(dk_ns)),
                      WaitMsg("Cluster", dk_ns))

(***************************************************************************)
(* ForceDeleteCluster (clusterclient.go 253-271), ForceDeleteMachine       *)
(* (841-871), ForceDeleteMachineSet (873-903) and                          *)
(* ForceDeleteMachineDeployment (905-935).                                 *)
(*                                                                         *)
(* Each fetches the named object, returns the wrapped error when the fetch *)
(* fails, empties the finalizers of the object it holds, updates it at the *)
(* API server and deletes it.  The call is followed on one object, the one *)
(* of the kind with the namespace and name of the arguments.               *)
(***************************************************************************)
ForceKinds == {"Cluster", "MachineDeployment", "MachineSet", "Machine"}

Finalizers == {"cluster.k8s.io/finalizer", "example.org/provider"}

\* the object of the arguments at the API server
ForceObjects == [finalizers : SUBSET Finalizers, deleting : BOOLEAN]

\* the object the call holds before the fetch: namespace and name only
ForceBlank == [finalizers |-> {}, deleting |-> FALSE]

NotFound == <<"not found">>

\* what a call of the API server may fail with besides NotFound
ForceErrors == {<<"connection refused">>}

ForceGetMsg(kind) ==
    IF kind = "Cluster" THEN "error getting cluster ns1/o1"
                        ELSE "error getting Machine ns1/o1"

ForceUpdateMsg(kind) ==
    IF kind = "Cluster" THEN "error removing finalizer on cluster ns1/o1"
                        ELSE "error removing finalizer for Machine ns1/o1"

ForceDeleteMsg(kind) ==
    IF kind = "Cluster" THEN "error deleting cluster ns1/o1"
                        ELSE "error deleting Machine ns1/o1"

\* the propagation policy of the delete call: ForceDeleteCluster passes
\* &metav1.DeleteOptions{} (line 266), the others
\* ctrlclient.PropagationPolicy(metav1.DeletePropagationForeground)
DeletePropagation(kind) == IF kind = "Cluster" THEN "" ELSE "Foreground"

\* a call that goes on to the update whatever the fetch answered
ForceAfterGetGoesOn(e) == "update"

\* the if err != nil { return ... } after the fetch
ForceAfterGet(e) == IF e # Nil THEN "returned" ELSE "update"

\* the store after a delete call that succeeded: with foreground
\* propagation the object stays, marked, until its dependents are gone
ForceDeleteEffect(st, propagation) ==
    IF propagation = "Foreground"
      THEN {[o EXCEPT !.deleting = TRUE,
                      !.finalizers = @ \cup {"foregroundDeletion"}] : o \in st}
      ELSE {o \in st : o.finalizers # {}}

InitForceDelete ==
    /\ fd_kind \in ForceKinds
    /\ fd_store \in {{}} \cup {{o} : o \in [finalizers : SUBSET Finalizers,
                                           deleting : {FALSE}]}
    /\ fd_before = fd_store
    /\ fd_pc = "called"
    /\ fd_obj = ForceBlank
    /\ fd_got = "none"
    /\ fd_calls = <<>>
    /\ fd_ret = Nil

\* lines 859-862 (255-258): the fetch and the test of its error
ForceGet ==
    /\ fd_pc = "called"
    /\ \E e \in {Nil, NotFound} \cup ForceErrors :
         /\ e = Nil => fd_store # {}
         /\ e = NotFound => fd_store = {}
         /\ fd_got' = IF e = Nil THEN "ok"
                      ELSE IF e = NotFound THEN "notfound" ELSE "error"
         /\ fd_obj' = IF e = Nil THEN CHOOSE o \in fd_store : TRUE
                                 ELSE fd_obj
         /\ fd_pc' = ForceAfterGet(e)
         /\ fd_ret' = IF ForceAfterGet(e) = "returned"
                        THEN Wrapf(e, ForceGetMsg(fd_kind))
                        ELSE fd_ret
    /\ UNCHANGED <<fd_kind, fd_store, fd_calls, fd_before>>
    /\ UNCHANGED notFd

\* a call that goes on to the delete whatever the update answered
ForceAfterUpdateGoesOn(e) == "delete"

\* if _, err := ...Update(obj); err != nil { return errors.Wrapf(...) }
ForceAfterUpdate(e) == IF e # Nil THEN "returned" ELSE "delete"

\* lines 863-866 (260-264): SetFinalizers([]string{}) and the update
ForceUpdate ==
    /\ fd_pc = "update"
    /\ \E e \in {Nil, NotFound} \cup ForceErrors :
         LET sent == [fd_obj EXCEPT !.finalizers = {}]
         IN  /\ e = Nil => fd_store # {}
             /\ e = NotFound => fd_store = {}
             /\ fd_obj' = sent
             /\ fd_calls' = Append(fd_calls,
                              [op |-> "update", finalizers |-> sent.finalizers,
                               propagation |-> ""])
             /\ fd_store' = IF e = Nil THEN {sent} ELSE fd_store
             /\ fd_pc' = ForceAfterUpdate(e)
             /\ fd_ret' = Wrapf(e, ForceUpdateMsg(fd_kind))
    /\ UNCHANGED <<fd_kind, fd_got, fd_before>>
    /\ UNCHANGED notFd

\* lines 867-870 (266-270): the delete call and the return
ForceDelete ==
    /\ fd_pc = "delete"
    /\ \E e \in {Nil, NotFound} \cup ForceErrors :
         /\ e = Nil => fd_store # {}
         /\ e = NotFound => fd_store = {}
         /\ fd_calls' = Append(fd_calls,
                          [op |-> "delete", finalizers |-> fd_obj.finalizers,
                           propagation |-> DeletePropagation(fd_kind)])
         /\ fd_store' = IF e = Nil
                          THEN ForceDeleteEffect(fd_store,
                                                 DeletePropagation(fd_kind))
                          ELSE fd_store
         /\ fd_pc' = "returned"
         /\ fd_ret' = Wrapf(e, ForceDeleteMsg(fd_kind))
    /\ UNCHANGED <<fd_kind, fd_obj, fd_got, fd_before>>
    /\ UNCHANGED notFd

\* another actor removes the object while the call runs
ForceObjectGone ==
    /\ fd_pc \in {"update", "delete"}
    /\ fd_store # {}
    /\ fd_store' = {}
    /\ UNCHANGED <<fd_kind, fd_pc, fd_obj, fd_got, fd_calls, fd_before, fd_ret>>
    /\ UNCHANGED notFd

NextForceDelete == ForceGet \/ ForceUpdate \/ ForceDelete \/ ForceObjectGone

InitSpecForceDelete ==
    /\ InitForceDelete /\ IdleCreate /\ IdleManifest /\ IdleClusterReady
    /\ IdleStatuses /\ IdleMachineReady /\ IdleDeleteKinds /\ IdleForCluster
    /\ IdleGetKinds /\ IdleDeleteObject /\ IdleValidate /\ IdleExtract
    /\ IdleUpdateEndpoint /\ IdleStore /\ IdleCreateObjects /\ IdleGetCluster

SpecForceDelete == InitSpecForceDelete /\ [][NextForceDelete]_vars

\* C19: for each of the four kinds, a Force<Kind>Delete that returned nil on
\* an object that existed with a non-empty finalizer set has issued two
\* calls: an update carrying an empty finalizer set and then a delete with
\* foreground propagation; and no delete call is issued without them.
C19_UpdateThenForegroundDelete ==
    /\ (/\ fd_pc = "returned"
        /\ fd_ret = Nil
        /\ \E o \in fd_before : o.finalizers # {}) =>
         /\ Len(fd_calls) = 2
         /\ fd_calls[1].op = "update"
         /\ fd_calls[1].finalizers = {}
         /\ fd_calls[2].op = "delete"
         /\ fd_calls[2].propagation = "Foreground"
    /\ \A i \in 1..Len(fd_calls) :
         fd_calls[i].op = "delete" =>
           /\ fd_calls[i].propagation = "Foreground"
           /\ i > 1
           /\ fd_calls[i - 1].op = "update"
           /\ fd_calls[i - 1].finalizers = {}

\* C20: a Force<Kind>Delete whose object is absent has, once past the fetch,
\* returned an error and issued no update and no delete call, the store is
\* as it was, and when the fetch answered NotFound the error returned is
\* NotFound wrapped in the message of the fetch.
C20_AbsentObjectNoCalls ==
    (fd_before = {} /\ fd_pc \notin {"idle", "called"}) =>
      /\ fd_pc = "returned"
      /\ fd_ret # Nil
      /\ fd_calls = <<>>
      /\ fd_store = fd_before
      /\ fd_got \in {"notfound", "error"}
      /\ fd_got = "notfound" => fd_ret = Wrapf(NotFound, ForceGetMsg(fd_kind))

\* the object was absent, the fetch answered NotFound and the call returned
\* it wrapped, with no call issued
C20_Witness ==
    /\ fd_before = {}
    /\ fd_pc = "returned"
    /\ fd_got = "notfound"
    /\ fd_ret = Wrapf(NotFound, ForceGetMsg(fd_kind))
    /\ fd_calls = <<>>

\* C35: a Force<Kind>Delete issues the update once at most and reaches its
\* delete call only after an update that did not fail; when it has returned
\* after the update alone, it returned the error of the update wrapped in
\* the message of the update, and no delete call was issued.
C35_UpdateFailureReturned ==
    /\ Cardinality({i \in 1..Len(fd_calls) : fd_calls[i].op = "update"}) <= 1
    /\ fd_pc = "delete" => fd_ret = Nil
    /\ (fd_pc = "returned" /\ Len(fd_calls) = 1) =>
          /\ fd_calls[1].op = "update"
          /\ fd_ret # Nil
          /\ Head(fd_ret) = ForceUpdateMsg(fd_kind)
          /\ Tail(fd_ret) \in {NotFound} \cup ForceErrors
    /\ \A i \in 1..Len(fd_calls) : fd_calls[i].op = "delete" => i = 2

\* the update was refused while the object was there with its finalizers:
\* the call returned the wrapped error after that one call
C35_Witness ==
    /\ fd_pc = "returned"
    /\ Len(fd_calls) = 1
    /\ fd_ret = Wrapf(<<"connection refused">>, ForceUpdateMsg(fd_kind))
    /\ \E o \in fd_store : o.finalizers # {}

(***************************************************************************)
(* GetMachineDeploymentsForCluster (clusterclient.go 331-361),             *)
(* GetMachineSetsForCluster (417-443), GetMachinesForCluster (478-504).    *)
(*                                                                         *)
(* Each lists the objects of its kind that carry the label of the cluster  *)
(* and keeps those with an owner reference of the kind and name of the     *)
(* cluster.  An item of the list is modelled by its owner references, and  *)
(* an element of the result by the index of the item it points to.  The    *)
(* name of the cluster is taken to make a valid label selector.            *)
(***************************************************************************)
ForClusterFns ==
    {"GetMachineDeploymentsForCluster", "GetMachineSetsForCluster",
     "GetMachinesForCluster"}

Clusters == [kind : {"Cluster"}, name : {"c1", "c2"}]

OwnerReferences ==
    {[kind |-> "Cluster", name |-> "c1"], [kind |-> "Cluster", name |-> "c2"],
     [kind |-> "MachineSet", name |-> "c1"]}

\* md.GetOwnerReferences() of an item
OwnerReferenceLists == UNION {[1..n -> OwnerReferences] : n \in 0..MaxRefs}

\* or.Kind == cluster.Kind && or.Name == cluster.Name
OwnerMatches(ref, cluster) == ref.kind = cluster.kind /\ ref.name = cluster.name

ForClusterListMsg(fn) ==
    IF fn = "GetMachineDeploymentsForCluster"
      THEN "error listing MachineDeployments for Cluster"
    ELSE IF fn = "GetMachineSetsForCluster"
      THEN "error listing MachineSets for Cluster"
    ELSE "error listing Machines for Cluster"

\* the two range loops from item idx, owner reference k on, with the result
\* slice out.  GetMachineDeploymentsForCluster appends
\* machineDeployments[idx], an element of the result slice itself (line
\* 354); the others append &list.Items[idx].  The continue statement is in
\* the inner loop and goes on with the next owner reference.
RECURSIVE ForClusterLoop(_, _, _, _, _, _)
ForClusterLoop(fn, items, cluster, idx, k, out) ==
    IF idx > Len(items)
      THEN [out |-> out, panic |-> FALSE]
    ELSE IF k > Len(items[idx])
      THEN ForClusterLoop(fn, items, cluster, idx + 1, 1, out)
    ELSE IF ~OwnerMatches(items[idx][k], cluster)
      THEN ForClusterLoop(fn, items, cluster, idx, k + 1, out)
    ELSE IF fn = "GetMachineDeploymentsForCluster"
      THEN IF idx > Len(out)
             \* index out of range
             THEN [out |-> out, panic |-> TRUE]
             ELSE ForClusterLoop(fn, items, cluster, idx, k + 1,
                                 Append(out, out[idx]))
    ELSE ForClusterLoop(fn, items, cluster, idx, k + 1, Append(out, idx))

InitForCluster ==
    /\ fc_fn \in ForClusterFns
    /\ fc_cluster \in Clusters
    /\ fc_items \in UNION {[1..n -> OwnerReferenceLists] : n \in 0..MaxCandidates}
    /\ fc_pc = "called"
    /\ fc_out = <<>>
    /\ fc_err = Nil

\* the call: the list, the test of its error, the loops, the return
ForClusterRun ==
    /\ fc_pc = "called"
    /\ \E listErr \in ListErrors :
         IF listErr # Nil
           THEN /\ fc_err' = Wrapf(listErr, ForClusterListMsg(fc_fn))
                /\ fc_out' = <<>>
                /\ fc_pc' = "returned"
           ELSE LET r == ForClusterLoop(fc_fn, fc_items, fc_cluster, 1, 1, <<>>)
                IN  /\ fc_err' = Nil
                    /\ fc_out' = r.out
                    /\ fc_pc' = IF r.panic THEN "crashed" ELSE "returned"
    /\ UNCHANGED <<fc_fn, fc_cluster, fc_items>>
    /\ UNCHANGED notFc

NextForCluster == ForClusterRun

InitSpecForCluster ==
    /\ InitForCluster /\ IdleCreate /\ IdleManifest /\ IdleClusterReady
    /\ IdleStatuses /\ IdleMachineReady /\ IdleDeleteKinds /\ IdleForceDelete
    /\ IdleGetKinds /\ IdleDeleteObject /\ IdleValidate /\ IdleExtract
    /\ IdleUpdateEndpoint /\ IdleStore /\ IdleCreateObjects /\ IdleGetCluster

SpecForCluster == InitSpecForCluster /\ [][NextForCluster]_vars

\* the items that carry an owner reference of the kind and name of the
\* cluster
Owned(items, cluster) ==
    {idx \in 1..Len(items) :
       \E k \in 1..Len(items[idx]) : OwnerMatches(items[idx][k], cluster)}

\* C21: a Get<Kind>sForCluster call does not crash, and when it has
\* returned after a list call that succeeded it returned no error and
\* exactly the listed items that carry an owner reference of the kind and
\* name of the cluster (none when the list is empty or nothing matches).
C21_ExactlyTheOwned ==
    /\ fc_pc # "crashed"
    /\ (fc_pc = "returned" /\ fc_err = Nil) =>
         {fc_out[i] : i \in 1..Len(fc_out)} = Owned(fc_items, fc_cluster)

\* C34: no listed item is in the result of a Get<Kind>sForCluster call more
\* than once, whatever the number of its owner references that match the
\* cluster.
C34_AtMostOnce ==
    (fc_pc = "returned" /\ fc_err = Nil) =>
       \A i, j \in 1..Len(fc_out) : fc_out[i] = fc_out[j] => i = j

(***************************************************************************)
(* GetClusters (clusterclient.go 273-294), GetMachineClasses (296-314),    *)
(* GetMachineDeployments (363-381), GetMachineSets (397-415), GetMachines  *)
(* (459-476).                                                              *)
(*                                                                         *)
(* Each lists the objects of its kind and returns pointers to the items.   *)
(* GetClusters hands the list call the namespace as a list option; the     *)
(* others call clientset.List without options and use the namespace in the *)
(* message of the error only.                                              *)
(***************************************************************************)
GetKindsFns ==
    {"GetClusters", "GetMachineClasses", "GetMachineDeployments",
     "GetMachineSets", "GetMachines"}

\* the objects of one kind a store may hold
NamespacedObjects == [namespace : Namespaces, name : 1..MaxNames]

\* clientset.List with the list option Namespace: ns ("" for no option)
ListInNamespace(st, ns) ==
    IF ns = "" THEN st ELSE {o \in st : o.namespace = ns}

\* the namespace option the list call of a Get<Kind>s is handed
ListOption(fn, ns) == IF fn = "GetClusters" THEN ns ELSE ""

GetKindsMsg(fn, ns) ==
    (IF fn = "GetClusters" THEN "error listing cluster objects in namespace "
     ELSE IF fn = "GetMachineClasses"
       THEN "error listing machine class objects in namespace "
     ELSE IF fn = "GetMachines"
       THEN "error listing machine objects in namespace "
     ELSE "error listing machine deployment objects in namespace ")
      \o Quoted(ns)

InitGetKinds ==
    /\ gk_fn \in GetKindsFns
    /\ gk_arg \in {""} \cup Namespaces
    /\ gk_store \in SUBSET NamespacedObjects
    /\ gk_pc = "called"
    /\ gk_out = {}
    /\ gk_err = Nil

\* the call: the list, the test of its error, the copy of the items
GetKindsRun ==
    /\ gk_pc = "called"
    /\ \E listErr \in ListErrors :
         /\ gk_err' = Wrapf(listErr, GetKindsMsg(gk_fn, gk_arg))
         /\ gk_out' = IF listErr # Nil
                        THEN {}
                        ELSE ListInNamespace(gk_store, ListOption(gk_fn, gk_arg))
         /\ gk_pc' = "returned"
    /\ UNCHANGED <<gk_fn, gk_arg, gk_store>>
    /\ UNCHANGED notGk

NextGetKinds == GetKindsRun

InitSpecGetKinds ==
    /\ InitGetKinds /\ IdleCreate /\ IdleManifest /\ IdleClusterReady
    /\ IdleStatuses /\ IdleMachineReady /\ IdleDeleteKinds /\ IdleForceDelete
    /\ IdleForCluster /\ IdleDeleteObject /\ IdleValidate /\ IdleExtract
    /\ IdleUpdateEndpoint /\ IdleStore /\ IdleCreateObjects /\ IdleGetCluster

SpecGetKinds == InitSpecGetKinds /\ [][NextGetKinds]_vars

\* C22: a Get<Kind>s call that returned without error returned the objects
\* of the namespace of its argument and no other when the argument is not
\* empty, and the objects of every namespace when it is empty.
C22_NamespaceScoped ==
    (gk_pc = "returned" /\ gk_err = Nil) =>
      gk_out = IF gk_arg = ""
                 THEN gk_store
                 ELSE {o \in gk_store : o.namespace = gk_arg}

(***************************************************************************)
(* DeleteMachineClass (clusterclient.go 532-548) and DeleteNamespace       *)
(* (176-198), called again and again on the same target.                   *)
(***************************************************************************)
DeleteObjectFns == {"DeleteMachineClass", "DeleteNamespace"}

\* apiv1.NamespaceDefault
NamespaceDefault == "default"

DeleteObjectNames(fn) ==
    IF fn = "DeleteNamespace" THEN {NamespaceDefault} \cup Namespaces
                              ELSE {"ns1/mc1", "ns1/mc2", "ns2/mc1"}

\* what a call of the API server may fail with besides NotFound
ApiErrors == ListErrors \ {Nil}

\* apierrors.IsNotFound(err)
IsNotFound(e) == e = NotFound

\* what the call returns when clientset.Delete answered e: lines 544-547
\* and 194-197
DeleteObjectResult(fn, name, e) ==
    IF fn = "DeleteMachineClass"
      THEN Wrapf(e, "error deleting MachineClass " \o name)
      ELSE IF e # Nil /\ ~IsNotFound(e) THEN e ELSE Nil

InitDeleteObject ==
    /\ dm_fn \in DeleteObjectFns
    /\ dm_name \in DeleteObjectNames(dm_fn)
    /\ dm_present \in BOOLEAN
    /\ dm_got = <<>>
    /\ dm_rets = <<>>

\* one call of DeleteNamespace on the default namespace: line 177
DeleteDefaultNamespace ==
    /\ dm_fn = "DeleteNamespace"
    /\ dm_name = NamespaceDefault
    /\ Len(dm_rets) < MaxDeleteCalls
    /\ dm_got' = Append(dm_got, <<"no call">>)
    /\ dm_rets' = Append(dm_rets, Nil)
    /\ UNCHANGED <<dm_fn, dm_name, dm_present>>
    /\ UNCHANGED notDm

\* one call on any other target: the delete call and the test of its error
DeleteObjectRun ==
    /\ dm_fn \in DeleteObjectFns
    /\ ~(dm_fn = "DeleteNamespace" /\ dm_name = NamespaceDefault)
    /\ Len(dm_rets) < MaxDeleteCalls
    /\ \E e \in {Nil, NotFound} \cup ApiErrors :
         /\ e = Nil => dm_present
         /\ e = NotFound => ~dm_present
         /\ dm_got' = Append(dm_got, e)
         /\ dm_rets' = Append(dm_rets, DeleteObjectResult(dm_fn, dm_name, e))
         /\ dm_present' = IF e = Nil THEN FALSE ELSE dm_present
    /\ UNCHANGED <<dm_fn, dm_name>>
    /\ UNCHANGED notDm

NextDeleteObject == DeleteDefaultNamespace \/ DeleteObjectRun

InitSpecDeleteObject ==
    /\ InitDeleteObject /\ IdleCreate /\ IdleManifest /\ IdleClusterReady
    /\ IdleStatuses /\ IdleMachineReady /\ IdleDeleteKinds /\ IdleForceDelete
    /\ IdleForCluster /\ IdleGetKinds /\ IdleValidate /\ IdleExtract
    /\ IdleUpdateEndpoint /\ IdleStore /\ IdleCreateObjects /\ IdleGetCluster

SpecDeleteObject == InitSpecDeleteObject /\ [][NextDeleteObject]_vars

\* C23: a call of DeleteMachineClass or DeleteNamespace whose delete was
\* answered with NotFound returns no error; so a delete that succeeded and
\* the same delete issued again both return no error.
C23_DeleteIdempotent ==
    \A i \in 1..Len(dm_rets) : dm_got[i] = NotFound => dm_rets[i] = Nil

(***************************************************************************)
(* The ClusterTemplate validating webhook (clustertemplate_webhook.go,     *)
(* kept as src/unnamed/part_000, lines 36-82).                             *)
(*                                                                         *)
(* A template is a record: its name and, of its embedded cluster spec, the *)
(* control-plane endpoint (host, port) and the paused flag.                *)
(***************************************************************************)
Templates ==
    [name : {"t1", "t2"}, host : {"", "a", "b"}, port : {0, 443, 6443},
     paused : BOOLEAN]

\* APIEndpoint.IsZero
IsZero(t) == t.host = "" /\ t.port = 0

\* field.NewPath("spec", "template", "spec").Child(name)
TemplateSpecPath(child) == "spec.template.spec." \o child

\* field.Invalid(path, value, detail)
Invalid(path, value, detail) ==
    [type |-> "FieldValueInvalid", field |-> path, badValue |-> value,
     detail |-> detail]

\* a validation that looks at the endpoint only
validateEndpointOnly(c) ==
    IF ~IsZero(c)
      THEN <<Invalid(TemplateSpecPath("controlPlaneEndpoint"),
                     [host |-> c.host, port |-> c.port],
                     "may not be populated for cluster templates")>>
      ELSE <<>>

\* allErrs as validate leaves it: lines 52-75
validate(c) ==
    (IF ~IsZero(c)
       THEN <<Invalid(TemplateSpecPath("controlPlaneEndpoint"),
                      [host |-> c.host, port |-> c.port],
                      "may not be populated for cluster templates")>>
       ELSE <<>>)
    \o
    (IF c.paused
       THEN <<Invalid(TemplateSpecPath("controlPlaneEndpoint"),
                      c.paused,
                      "may not be populated for cluster templates")>>
       ELSE <<>>)

\* what validate returns: lines 77-81
NewInvalid(kind, name, allErrs) ==
    IF Len(allErrs) > 0
      THEN <<[reason |-> "Invalid", kind |-> kind, name |-> name,
              causes |-> allErrs]>>
      ELSE Nil

InitValidate ==
    /\ ct_template \in Templates
    /\ ct_op \in {"create", "update", "delete"}
    /\ ct_pc = "called"
    /\ ct_ret = Nil

ValidateCreate ==
    /\ ct_pc = "called"
    /\ ct_op = "create"
    /\ ct_ret' = NewInvalid("ClusterTemplate", ct_template.name,
                            validate(ct_template))
    /\ ct_pc' = "returned"
    /\ UNCHANGED <<ct_template, ct_op>>
    /\ UNCHANGED notCt

\* the old object is not looked at
ValidateUpdate ==
    /\ ct_pc = "called"
    /\ ct_op = "update"
    /\ \E old \in Templates :
         ct_ret' = NewInvalid("ClusterTemplate", ct_template.name,
                              validate(ct_template))
    /\ ct_pc' = "returned"
    /\ UNCHANGED <<ct_template, ct_op>>
    /\ UNCHANGED notCt

ValidateDelete ==
    /\ ct_pc = "called"
    /\ ct_op = "delete"
    /\ ct_ret' = Nil
    /\ ct_pc' = "returned"
    /\ UNCHANGED <<ct_template, ct_op>>
    /\ UNCHANGED notCt

NextValidate == ValidateCreate \/ ValidateUpdate \/ ValidateDelete

InitSpecValidate ==
    /\ InitValidate /\ IdleCreate /\ IdleManifest /\ IdleClusterReady
    /\ IdleStatuses /\ IdleMachineReady /\ IdleDeleteKinds /\ IdleForceDelete
    /\ IdleForCluster /\ IdleGetKinds /\ IdleDeleteObject /\ IdleExtract
    /\ IdleUpdateEndpoint /\ IdleStore /\ IdleCreateObjects /\ IdleGetCluster

SpecValidate == InitSpecValidate /\ [][NextValidate]_vars

\* the field errors a returned error carries
FieldErrors(e) == IF e = Nil THEN <<>> ELSE e[1].causes

\* C25: validation on create and on update alike returns as many field
\* errors as there are violated fields among the control-plane endpoint
\* (host or port set) and paused, one each, two when both are violated; it
\* rejects the template exactly when there is one at least, as Invalid, and
\* accepts with no error a template with neither set.
C25_OneErrorPerViolatedField ==
    (ct_pc = "returned" /\ ct_op \in {"create", "update"}) =>
       LET endpoint == ct_template.host # "" \/ ct_template.port # 0
           n == (IF endpoint THEN 1 ELSE 0) +
                (IF ct_template.paused THEN 1 ELSE 0)
       IN  /\ Len(FieldErrors(ct_ret)) = n
           /\ ct_ret = Nil <=> n = 0
           /\ ct_ret # Nil => ct_ret[1].reason = "Invalid"
           /\ endpoint =>
                FieldErrors(ct_ret)[1].badValue =
                   [host |-> ct_template.host, port |-> ct_template.port]
           /\ ct_template.paused => FieldErrors(ct_ret)[n].badValue = TRUE

\* an update with a port and paused set, rejected with two field errors
C25_Witness ==
    /\ ct_pc = "returned"
    /\ ct_op = "update"
    /\ ct_template.host = ""
    /\ ct_template.port = 443
    /\ ct_template.paused
    /\ Len(FieldErrors(ct_ret)) = 2

\* C39: the field errors of a rejected template name the fields that were
\* violated: a set endpoint is reported under
\* spec.template.spec.controlPlaneEndpoint, a set paused under
\* spec.template.spec.paused, and no two of the errors carry the same path.
C39_ErrorsNameTheirField ==
    (ct_pc = "returned" /\ ct_op \in {"create", "update"}) =>
       LET errs == FieldErrors(ct_ret)
           fields == {errs[i].field : i \in 1..Len(errs)}
       IN  /\ ~IsZero(ct_template) =>
                "spec.template.spec.controlPlaneEndpoint" \in fields
           /\ ct_template.paused =>
                "spec.template.spec.paused" \in fields
           /\ \A i, j \in 1..Len(errs) :
                 errs[i].field = errs[j].field => i = j

(***************************************************************************)
(* ExtractControlPlaneMachines (clusterclient.go 1333-1349).               *)
(*                                                                         *)
(* A machine is a record: its name and whether it carries the control      *)
(* plane marker.  A returned slice is a record: whether it is nil, and its *)
(* items.                                                                  *)
(***************************************************************************)
ExtractMachines == [name : {"m1", "m2"}, controlPlane : BOOLEAN]

ExtractInputs == UNION {[1..n -> ExtractMachines] : n \in 0..MaxExtract}

\* util.IsControlPlaneMachine(machine)
IsControlPlaneMachine(machine) == machine.controlPlane

NilSlice == [nil |-> TRUE, items |-> <<>>]

Slice(items) == [nil |-> FALSE, items |-> items]

\* a loop that puts the machine in front
ExtractPrepend(list, machine) == <<machine>> \o list

\* append(list, machine)
ExtractAppend(list, machine) == Append(list, machine)

\* errors.Errorf("expected one or more control plane machines, got: %v", n)
ExtractErr(n) ==
    <<"expected one or more control plane machines, got: " \o ToString(n)>>

InitExtract ==
    /\ ex_machines \in ExtractInputs
    /\ ex_i = 0
    /\ ex_nodes = <<>>
    /\ ex_controlPlaneMachines = <<>>
    /\ ex_pc = "loop"
    /\ ex_ret = [controlPlane |-> NilSlice, nodes |-> NilSlice, err |-> Nil]

\* one turn of the loop
ExtractLoop ==
    /\ ex_pc = "loop"
    /\ ex_i < Len(ex_machines)
    /\ LET machine == ex_machines[ex_i + 1]
       IN  IF IsControlPlaneMachine(machine)
             THEN /\ ex_controlPlaneMachines' =
                       ExtractAppend(ex_controlPlaneMachines, machine)
                  /\ UNCHANGED ex_nodes
             ELSE /\ ex_nodes' = ExtractAppend(ex_nodes, machine)
                  /\ UNCHANGED ex_controlPlaneMachines
    /\ ex_i' = ex_i + 1
    /\ UNCHANGED <<ex_machines, ex_pc, ex_ret>>
    /\ UNCHANGED notEx

\* after the loop: lines 1345-1348
ExtractReturn ==
    /\ ex_pc = "loop"
    /\ ex_i = Len(ex_machines)
    /\ ex_ret' = IF Len(ex_controlPlaneMachines) < 1
                   THEN [controlPlane |-> NilSlice, nodes |-> NilSlice,
                         err |-> ExtractErr(Len(ex_controlPlaneMachines))]
                   ELSE [controlPlane |-> Slice(ex_controlPlaneMachines),
                         nodes |-> Slice(ex_nodes), err |-> Nil]
    /\ ex_pc' = "returned"
    /\ UNCHANGED <<ex_machines, ex_i, ex_nodes, ex_controlPlaneMachines>>
    /\ UNCHANGED notEx

NextExtract == ExtractLoop \/ ExtractReturn

InitSpecExtract ==
    /\ InitExtract /\ IdleCreate /\ IdleManifest /\ IdleClusterReady
    /\ IdleStatuses /\ IdleMachineReady /\ IdleDeleteKinds /\ IdleForceDelete
    /\ IdleForCluster /\ IdleGetKinds /\ IdleDeleteObject /\ IdleValidate
    /\ IdleUpdateEndpoint /\ IdleStore /\ IdleCreateObjects /\ IdleGetCluster

SpecExtract == InitSpecExtract /\ [][NextExtract]_vars

\* the marker, as the claim reads it
HasMarker(m) == m.controlPlane

HasNoMarker(m) == ~m.controlPlane

\* C26: when the input holds a control-plane machine, the first result is
\* the input with the machines without the marker struck out and the second
\* is the input with the machines with the marker struck out, so that every
\* machine of the input is in exactly one of them, as often as in the input
\* and in input order, and no error is returned; when it holds none, an
\* error and two nil lists are returned.
C26_PartitionInOrder ==
    ex_pc = "returned" =>
       IF \E i \in 1..Len(ex_machines) : HasMarker(ex_machines[i])
         THEN /\ ex_ret.err = Nil
              /\ ~ex_ret.controlPlane.nil
              /\ ~ex_ret.nodes.nil
              /\ ex_ret.controlPlane.items = SelectSeq(ex_machines, HasMarker)
              /\ ex_ret.nodes.items = SelectSeq(ex_machines, HasNoMarker)
         ELSE /\ ex_ret.err # Nil
              /\ ex_ret.controlPlane.nil
              /\ ex_ret.nodes.nil

\* three machines, the control-plane machine in the middle
C26_Witness ==
    /\ ex_pc = "returned"
    /\ Len(ex_machines) = 3
    /\ ~ex_machines[1].controlPlane
    /\ ex_machines[2].controlPlane
    /\ ~ex_machines[3].controlPlane
    /\ ex_machines[1] # ex_machines[3]
    /\ ex_ret.nodes.items = <<ex_machines[1], ex_machines[3]>>

(***************************************************************************)
(* UpdateClusterObjectEndpoint (clusterclient.go 940-969), called for the  *)
(* cluster c1 of namespace ns1, and GetCluster (238-251).                  *)
(*                                                                         *)
(* Strings that are taken apart are sequences of characters.  A cluster is *)
(* a record: its name and its Status.APIEndpoints.                         *)
(***************************************************************************)
EndpointChars == {"h", "8", ":", "-", "[", "]"}

ClusterEndpoints == UNION {[1..n -> EndpointChars] : n \in 0..MaxEndpointLen}

\* the port used when the argument names none
defaultAPIServerPort == <<"4", "4", "3">>

EndpointClusters ==
    [name : {"c1", "c2"},
     endpoints : {<<>>, <<[host |-> <<"h">>, port |-> 443]>>}]

\* the characters of s put together
RECURSIVE Join(_)
Join(s) == IF s = <<>> THEN "" ELSE Head(s) \o Join(Tail(s))

\* the place of the first c in s, 0 when there is none
Index(s, c) ==
    IF \E i \in 1..Len(s) : s[i] = c
      THEN CHOOSE i \in 1..Len(s) :
             s[i] = c /\ \A j \in 1..(i - 1) : s[j] # c
      ELSE 0

\* the place of the last c in s, 0 when there is none
LastIndex(s, c) ==
    IF \E i \in 1..Len(s) : s[i] = c
      THEN CHOOSE i \in 1..Len(s) :
             s[i] = c /\ \A j \in (i + 1)..Len(s) : s[j] # c
      ELSE 0

AddrError(addr, msg) == <<"address " \o Join(addr) \o ": " \o msg>>

\* net.SplitHostPort(hostport)
SplitHostPort(hostport) ==
    LET i == LastIndex(hostport, ":")
        end == Index(hostport, "]")
        fail(msg) == [host |-> <<>>, port |-> <<>>,
                      err |-> AddrError(hostport, msg)]
        \* the tests behind the host, the brackets looked for from j and k
        rest(host, j, k) ==
            IF Index(SubSeq(hostport, j, Len(hostport)), "[") > 0
              THEN fail("unexpected '[' in address")
            ELSE IF Index(SubSeq(hostport, k, Len(hostport)), "]") > 0
              THEN fail("unexpected ']' in address")
            ELSE [host |-> host,
                  port |-> SubSeq(hostport, i + 1, Len(hostport)),
                  err |-> Nil]
    IN  IF i = 0 THEN fail("missing port in address")
        ELSE IF hostport[1] = "["
          THEN IF end = 0 THEN fail("missing ']' in address")
               ELSE IF end = Len(hostport)
                 THEN fail("missing port in address")
               ELSE IF end + 1 = i
                 THEN rest(SubSeq(hostport, 2, end - 1), 2, end + 1)
               ELSE IF hostport[end + 1] = ":"
                 THEN fail("too many colons in address")
               ELSE fail("missing port in address")
        ELSE IF Index(SubSeq(hostport, 1, i - 1), ":") > 0
          THEN fail("too many colons in address")
        ELSE rest(SubSeq(hostport, 1, i - 1), 1, 1)

\* host and port that take what the split gave, whatever its error
EndpointPartsOfSplit(clusterEndpoint) ==
    [host |-> SplitHostPort(clusterEndpoint).host,
     port |-> SplitHostPort(clusterEndpoint).port]

\* endpointHost and endpointPort: lines 951-957
EndpointParts(clusterEndpoint) ==
    IF SplitHostPort(clusterEndpoint).err # Nil
      THEN [host |-> clusterEndpoint, port |-> defaultAPIServerPort]
      ELSE [host |-> SplitHostPort(clusterEndpoint).host,
            port |-> SplitHostPort(clusterEndpoint).port]

\* GetCluster(name, ns) on the clusters listed: nil when none has the name
GetCluster(listed, name) ==
    IF \E nc \in listed : nc.name = name
      THEN {CHOOSE nc \in listed : nc.name = name}
      ELSE {}

EndpointPortMsg(port) ==
    "error while converting cluster endpoint port " \o Quoted(Join(port))

InitUpdateEndpoint ==
    /\ ue_clusterEndpoint \in ClusterEndpoints
    /\ ue_store \in {{}} \cup {{c} : c \in EndpointClusters}
    /\ ue_cluster = {}
    /\ ue_updates = <<>>
    /\ ue_pc = "called"
    /\ ue_err = Nil

\* the list call of GetCluster fails
UpdateEndpointListFails ==
    /\ ue_pc = "called"
    /\ \E e \in ForceErrors :
         ue_err' = Wrapf(e, GetKindsMsg("GetClusters", "ns1"))
    /\ ue_pc' = "returned"
    /\ UNCHANGED <<ue_clusterEndpoint, ue_store, ue_cluster, ue_updates>>
    /\ UNCHANGED notUe

\* the port is no number: lines 958-961
UpdateEndpointBadPort ==
    /\ ue_pc = "called"
    /\ Atoi(EndpointParts(ue_clusterEndpoint).port).err # Nil
    /\ ue_cluster' = GetCluster(ue_store, "c1")
    /\ ue_err' = Wrapf(Atoi(EndpointParts(ue_clusterEndpoint).port).err,
                       EndpointPortMsg(EndpointParts(ue_clusterEndpoint).port))
    /\ ue_pc' = "returned"
    /\ UNCHANGED <<ue_clusterEndpoint, ue_store, ue_updates>>
    /\ UNCHANGED notUe

\* GetCluster returned nil and nil: cluster.Status of line 962 is read
\* through the nil pointer
UpdateEndpointNilCluster ==
    /\ ue_pc = "called"
    /\ Atoi(EndpointParts(ue_clusterEndpoint).port).err = Nil
    /\ GetCluster(ue_store, "c1") = {}
    /\ ue_cluster' = {}
    /\ ue_pc' = "panicked"
    /\ UNCHANGED <<ue_clusterEndpoint, ue_store, ue_updates, ue_err>>
    /\ UNCHANGED notUe

\* the endpoint is appended and the status update issued: lines 962-968
UpdateEndpointUpdate ==
    /\ ue_pc = "called"
    /\ Atoi(EndpointParts(ue_clusterEndpoint).port).err = Nil
    /\ GetCluster(ue_store, "c1") # {}
    /\ LET cluster == CHOOSE c \in GetCluster(ue_store, "c1") : TRUE
           parts == EndpointParts(ue_clusterEndpoint)
           sent == Append(cluster.endpoints,
                          [host |-> parts.host, port |-> Atoi(parts.port).val])
       IN  /\ ue_cluster' = {cluster}
           /\ ue_updates' = Append(ue_updates, sent)
           /\ \E e \in {Nil} \cup ForceErrors :
                /\ ue_err' = e
                /\ ue_store' = IF e = Nil
                                 THEN {[cluster EXCEPT !.endpoints = sent]}
                                 ELSE ue_store
    /\ ue_pc' = "returned"
    /\ UNCHANGED ue_clusterEndpoint
    /\ UNCHANGED notUe

NextUpdateEndpoint ==
    \/ UpdateEndpointListFails
    \/ UpdateEndpointBadPort
    \/ UpdateEndpointNilCluster
    \/ UpdateEndpointUpdate

InitSpecUpdateEndpoint ==
    /\ InitUpdateEndpoint /\ IdleCreate /\ IdleManifest /\ IdleClusterReady
    /\ IdleStatuses /\ IdleMachineReady /\ IdleDeleteKinds /\ IdleForceDelete
    /\ IdleForCluster /\ IdleGetKinds /\ IdleDeleteObject /\ IdleValidate
    /\ IdleExtract /\ IdleStore /\ IdleCreateObjects /\ IdleGetCluster

SpecUpdateEndpoint == InitSpecUpdateEndpoint /\ [][NextUpdateEndpoint]_vars

\* the one status update issued sent the fetched endpoints and then the
\* endpoint (host, port)
AppendedOnce(host, port) ==
    \E c \in ue_cluster :
       ue_updates = <<Append(c.endpoints, [host |-> host, port |-> port])>>

\* C27: when the cluster was fetched and the call returned, an argument
\* without a colon makes one status update that appends (argument, 443); an
\* argument host:port, one colon and no bracket, makes one status update
\* that appends (host, port) when the port is an integer written out, and
\* is answered with an error and no status update when it is not; and
\* whatever the argument, there is either an error from before the update
\* and no update, or one update that appends one endpoint.
C27_HostOrHostPort ==
    (ue_pc = "returned" /\ ue_cluster # {}) =>
       LET arg == ue_clusterEndpoint
           colons == {i \in 1..Len(arg) : arg[i] = ":"}
           brackets == {i \in 1..Len(arg) : arg[i] \in {"[", "]"}}
       IN  /\ colons = {} => AppendedOnce(arg, 443)
           /\ (Cardinality(colons) = 1 /\ brackets = {}) =>
                 \E i \in colons :
                    LET host == SubSeq(arg, 1, i - 1)
                        port == SubSeq(arg, i + 1, Len(arg))
                    IN  IF IsNumeral(port)
                          THEN \E c \in ue_cluster :
                                  /\ Len(ue_updates) = 1
                                  /\ \E e \in {ue_updates[1][Len(ue_updates[1])]} :
                                        /\ port \in Numerals(e.port)
                                        /\ AppendedOnce(host, e.port)
                          ELSE ue_err # Nil /\ ue_updates = <<>>
           /\ \/ ue_updates = <<>> /\ ue_err # Nil
              \/ \E c \in ue_cluster :
                    /\ Len(ue_updates) = 1
                    /\ Len(ue_updates[1]) = Len(c.endpoints) + 1
                    /\ SubSeq(ue_updates[1], 1, Len(c.endpoints)) = c.endpoints

\* the argument h:8 appended (h, 8) behind an endpoint the cluster had
C27_Witness ==
    /\ ue_pc = "returned"
    /\ ue_clusterEndpoint = <<"h", ":", "8">>
    /\ ue_err = Nil
    /\ ue_store = {[name |-> "c1",
                    endpoints |-> <<[host |-> <<"h">>, port |-> 443],
                                    [host |-> <<"h">>, port |-> 8]>>]}

\* C38: a call for a cluster name that no cluster of the namespace has does
\* not crash; once it is over it has returned an error and has issued no
\* status update.
C38_AbsentClusterIsAnError ==
    (ue_pc # "called" /\ GetCluster(ue_store, "c1") = {}) =>
       /\ ue_pc = "returned"
       /\ ue_err # Nil
       /\ ue_updates = <<>>

(***************************************************************************)
(* providercomponents.Store (store.go, kept behind                         *)
(* providercomponentsstorefactory.go, lines 71-159).                       *)
(*                                                                         *)
(* A store made by NewFromClientset has an empty ExplicitPath; Store has   *)
(* no field ConfigMap, so the field loadFromConfigMap tests is set by no   *)
(* constructor and is read as nil.  A ConfigMap is a record: its Data      *)
(* under the key provider-components, empty when the key is not there.     *)
(***************************************************************************)
ProviderComponents == {"", "a", "b"}

configMapName == "clusterctl"

configMapProviderComponentsKey == "provider-components"

ConfigMaps == [data : {{}} \cup {{s} : s \in ProviderComponents}]

\* what the last call is recorded as
StoreCall(op, val, e, failed) ==
    [op |-> op, val |-> val, err |-> e, failed |-> failed]

\* pc.ConfigMap, a field no constructor sets
StoreConfigMapField == {}

\* loadFromConfigMap behind its first test: lines 148-158, the Get asking
\* for the ConfigMap of the default namespace
loadFromConfigMapUnchecked(maps, getErr) ==
    IF getErr # Nil
      THEN StoreCall("load", "",
                     Wrapf(getErr, "error getting configmap named " \o
                                     Quoted(configMapName)), TRUE)
    ELSE IF maps["default"] = {}
      THEN StoreCall("load", "",
                     Wrapf(NotFound, "error getting configmap named " \o
                                       Quoted(configMapName)), FALSE)
    ELSE LET cm == CHOOSE c \in maps["default"] : TRUE
         IN  IF cm.data = {}
               THEN StoreCall("load", "",
                              <<"configmap " \o Quoted(configMapName) \o
                                " does not contain the provider components key " \o
                                Quoted(configMapProviderComponentsKey)>>,
                              FALSE)
               ELSE StoreCall("load", CHOOSE s \in cm.data : TRUE, Nil, FALSE)

\* loadFromConfigMap: lines 145-159
loadFromConfigMap(maps, getErr) ==
    IF StoreConfigMapField = {}
      THEN StoreCall("load", "",
                     <<"unable to load config map: need a valid ConfigMapInterface">>,
                     FALSE)
      ELSE loadFromConfigMapUnchecked(maps, getErr)

InitStore ==
    /\ ps_ExplicitPath \in {"", "f"}
    /\ ps_file \in {{}} \cup {{s} : s \in ProviderComponents}
    /\ ps_configMaps \in [{"default", ""} -> {{}} \cup {{c} : c \in ConfigMaps}]
    /\ ps_configMaps[""] = {}
    /\ ps_ExplicitPath = "" => ps_file = {}
    /\ ps_ExplicitPath # "" => ps_configMaps["default"] = {}
    /\ ps_saved = {}
    /\ ps_last = StoreCall("none", "", Nil, FALSE)
    /\ ps_ops = 0

\* Save on a store with a path: ioutil.WriteFile
StoreSaveFile ==
    /\ ps_ops < MaxStoreOps
    /\ ps_ExplicitPath # ""
    /\ \E providerComponents \in ProviderComponents :
       \E e \in {Nil} \cup ForceErrors :
         /\ ps_last' = StoreCall("save", providerComponents, e, e # Nil)
         /\ ps_file' = IF e = Nil THEN {providerComponents} ELSE ps_file
         /\ ps_saved' = IF e = Nil THEN {providerComponents} ELSE ps_saved
    /\ ps_ops' = ps_ops + 1
    /\ UNCHANGED <<ps_ExplicitPath, ps_configMaps>>
    /\ UNCHANGED notPs

\* Load on a store with a path: loadFromFile
StoreLoadFile ==
    /\ ps_ops < MaxStoreOps
    /\ ps_ExplicitPath # ""
    /\ \E e \in {Nil} \cup ForceErrors :
         /\ e = Nil => ps_file # {}
         /\ ps_last' =
              IF e = Nil
                THEN StoreCall("load", CHOOSE s \in ps_file : TRUE, Nil, FALSE)
                ELSE StoreCall("load", "",
                               Wrapf(e, "error when loading provider components from " \o
                                          Quoted(ps_ExplicitPath)),
                               ps_file # {})
    /\ ps_ops' = ps_ops + 1
    /\ UNCHANGED <<ps_ExplicitPath, ps_file, ps_configMaps, ps_saved>>
    /\ UNCHANGED notPs

\* Save on a store without a path, the Get failing: lines 117-126
StoreSaveGetFails ==
    /\ ps_ops < MaxStoreOps
    /\ ps_ExplicitPath = ""
    /\ \E providerComponents \in ProviderComponents :
       \E e \in ForceErrors :
         ps_last' = StoreCall("save", providerComponents,
                              Wrapf(e, "unable to get configmap " \o
                                         Quoted(configMapName)), TRUE)
    /\ ps_ops' = ps_ops + 1
    /\ UNCHANGED <<ps_ExplicitPath, ps_file, ps_configMaps, ps_saved>>
    /\ UNCHANGED notPs

\* Save on a store without a path, the ConfigMap found: Update
StoreSaveUpdate ==
    /\ ps_ops < MaxStoreOps
    /\ ps_ExplicitPath = ""
    /\ ps_configMaps["default"] # {}
    /\ \E providerComponents \in ProviderComponents :
       \E e \in {Nil} \cup ForceErrors :
         /\ ps_last' = StoreCall("save", providerComponents,
                                 Wrapf(e, "error updating config map " \o
                                            Quoted(configMapName)), e # Nil)
         /\ ps_configMaps' =
              IF e = Nil
                THEN [ps_configMaps EXCEPT
                        !["default"] = {[data |-> {providerComponents}]}]
                ELSE ps_configMaps
         /\ ps_saved' = IF e = Nil THEN {providerComponents} ELSE ps_saved
    /\ ps_ops' = ps_ops + 1
    /\ UNCHANGED <<ps_ExplicitPath, ps_file>>
    /\ UNCHANGED notPs

\* Save on a store without a path, the ConfigMap not found: Create of a
\* ConfigMap that has a name and no namespace.  The call fails, or the
\* object is stored under the namespace it names, the empty one.
StoreSaveCreate ==
    /\ ps_ops < MaxStoreOps
    /\ ps_ExplicitPath = ""
    /\ ps_configMaps["default"] = {}
    /\ \E providerComponents \in ProviderComponents :
       \E e \in {Nil} \cup ForceErrors :
         /\ ps_last' = StoreCall("save", providerComponents,
                                 Wrapf(e, "error creating config map " \o
                                            Quoted(configMapName)), e # Nil)
         /\ ps_configMaps' =
              IF e = Nil
                THEN [ps_configMaps EXCEPT
                        ![""] = {[data |-> {providerComponents}]}]
                ELSE ps_configMaps
         /\ ps_saved' = IF e = Nil THEN {providerComponents} ELSE ps_saved
    /\ ps_ops' = ps_ops + 1
    /\ UNCHANGED <<ps_ExplicitPath, ps_file>>
    /\ UNCHANGED notPs

\* Load on a store without a path
StoreLoadConfigMap ==
    /\ ps_ops < MaxStoreOps
    /\ ps_ExplicitPath = ""
    /\ \E getErr \in {Nil} \cup ForceErrors :
         ps_last' = loadFromConfigMap(ps_configMaps, getErr)
    /\ ps_ops' = ps_ops + 1
    /\ UNCHANGED <<ps_ExplicitPath, ps_file, ps_configMaps, ps_saved>>
    /\ UNCHANGED notPs

NextStore ==
    \/ StoreSaveFile
    \/ StoreLoadFile
    \/ StoreSaveGetFails
    \/ StoreSaveUpdate
    \/ StoreSaveCreate
    \/ StoreLoadConfigMap

InitSpecStore ==
    /\ InitStore /\ IdleCreate /\ IdleManifest /\ IdleClusterReady
    /\ IdleStatuses /\ IdleMachineReady /\ IdleDeleteKinds /\ IdleForceDelete
    /\ IdleForCluster /\ IdleGetKinds /\ IdleDeleteObject /\ IdleValidate
    /\ IdleExtract /\ IdleUpdateEndpoint /\ IdleCreateObjects
    /\ IdleGetCluster

SpecStore == InitSpecStore /\ [][NextStore]_vars

\* C28: a Load made after a Save succeeded, and not failed by the file
\* system or the API server, returns no error and the string of the last
\* Save that succeeded, for the store with a path and for the store backed
\* by the ConfigMap alike.
C28_LoadReturnsSaved ==
    (ps_last.op = "load" /\ ps_saved # {} /\ ~ps_last.failed) =>
       /\ ps_last.err = Nil
       /\ ps_last.val \in ps_saved

(***************************************************************************)
(* CreateMachineDeployments (clusterclient.go 567-583) and                 *)
(* CreateMachineSets (585-601).                                            *)
(***************************************************************************)
CreateObjectsFns == {"CreateMachineDeployments", "CreateMachineSets"}

CreateObjectsInputs ==
    UNION {{[i \in 1..n |-> [name |-> MachineNames[i], namespace |-> nss[i]]] :
              nss \in [1..n -> InputNamespaces]} : n \in 0..MaxCreate}

CreateObjectsMsg(fn, ns) ==
    (IF fn = "CreateMachineDeployments"
       THEN "error creating a machine deployment object in namespace "
       ELSE "error creating a machine set object in namespace ") \o Quoted(ns)

InitCreateObjects ==
    /\ cd_fn \in CreateObjectsFns
    /\ cd_objects \in CreateObjectsInputs
    /\ cd_namespace \in TargetNamespaces
    /\ cd_calls = <<>>
    /\ cd_pc = "loop"
    /\ cd_err = Nil

\* the first turn of the loop: the namespace is set, the create call made,
\* and the function returns, with the wrapped error or with nil
CreateObjectsFirst ==
    /\ cd_pc = "loop"
    /\ Len(cd_objects) > 0
    /\ LET object == [cd_objects[1] EXCEPT !.namespace = cd_namespace]
       IN  /\ cd_objects' = [cd_objects EXCEPT ![1] = object]
           /\ cd_calls' = Append(cd_calls, object)
    /\ \E e \in {Nil} \cup ForceErrors :
         cd_err' = Wrapf(e, CreateObjectsMsg(cd_fn, cd_namespace))
    /\ cd_pc' = "returned"
    /\ UNCHANGED <<cd_fn, cd_namespace>>
    /\ UNCHANGED notCd

\* the list is empty: the loop is not entered
CreateObjectsNone ==
    /\ cd_pc = "loop"
    /\ Len(cd_objects) = 0
    /\ cd_pc' = "returned"
    /\ UNCHANGED <<cd_fn, cd_objects, cd_namespace, cd_calls, cd_err>>
    /\ UNCHANGED notCd

NextCreateObjects == CreateObjectsFirst \/ CreateObjectsNone

InitSpecCreateObjects ==
    /\ InitCreateObjects /\ IdleCreate /\ IdleManifest /\ IdleClusterReady
    /\ IdleStatuses /\ IdleMachineReady /\ IdleDeleteKinds /\ IdleForceDelete
    /\ IdleForCluster /\ IdleGetKinds /\ IdleDeleteObject /\ IdleValidate
    /\ IdleExtract /\ IdleUpdateEndpoint /\ IdleStore /\ IdleGetCluster

SpecCreateObjects == InitSpecCreateObjects /\ [][NextCreateObjects]_vars

\* C30: when the call has returned, the create calls issued are for the
\* objects of the list in list order, each with the target namespace; when
\* it returned no error there is one call for every object of the list and
\* every object carries the target namespace.
C30_OneCreatePerObject ==
    cd_pc = "returned" =>
       /\ Len(cd_calls) <= Len(cd_objects)
       /\ \A k \in 1..Len(cd_calls) :
             cd_calls[k] = [name |-> cd_objects[k].name,
                            namespace |-> cd_namespace]
       /\ cd_err = Nil =>
             /\ Len(cd_calls) = Len(cd_objects)
             /\ \A i \in 1..Len(cd_objects) :
                   cd_objects[i].namespace = cd_namespace

(***************************************************************************)
(* GetCluster (clusterclient.go 238-251) over GetClusters (273-294).       *)
(*                                                                         *)
(* A cluster is a record: its name and its namespace.  The API server      *)
(* holds no two clusters with the same name in one namespace; the list of  *)
(* the empty namespace is the list over all namespaces.                    *)
(***************************************************************************)
ClusterNames == {"c1", "c2"}

ClusterObjects == [name : ClusterNames, namespace : Namespaces]

ClusterStores ==
    {st \in UNION {[1..n -> ClusterObjects] : n \in 0..MaxClusters} :
       \A i, j \in 1..Len(st) : st[i] = st[j] => i = j}

\* clientset.List with the list option Namespace: ns, on a list in order
ListedInNamespace(st, ns) ==
    LET inNs(c) == ns = "" \/ c.namespace = ns
    IN  SelectSeq(st, inNs)

\* a range loop that has no break: the last cluster with the name is kept
RECURSIVE RangeClustersNoBreak(_, _, _)
RangeClustersNoBreak(list, name, cluster) ==
    IF list = <<>> THEN cluster
    ELSE IF Head(list).name = name
      THEN RangeClustersNoBreak(Tail(list), name, <<Head(list)>>)
    ELSE RangeClustersNoBreak(Tail(list), name, cluster)

\* lines 244-249: for _, nc := range clustersInNamespace, from the value
\* cluster has before the loop
RECURSIVE RangeClusters(_, _, _)
RangeClusters(list, name, cluster) ==
    IF list = <<>> THEN cluster
    ELSE IF Head(list).name = name THEN <<Head(list)>>
    ELSE RangeClusters(Tail(list), name, cluster)

InitGetCluster ==
    /\ gc_store \in ClusterStores
    /\ gc_name \in ClusterNames
    /\ gc_ns \in {""} \cup Namespaces
    /\ gc_pc = "called"
    /\ gc_listErr = Nil
    /\ gc_cluster = <<>>
    /\ gc_err = Nil

\* lines 239-242: GetClusters failed in its list call
GetClusterListFails ==
    /\ gc_pc = "called"
    /\ \E e \in ForceErrors :
         /\ gc_listErr' = e
         /\ gc_err' = Wrapf(e, GetKindsMsg("GetClusters", gc_ns))
    /\ gc_cluster' = <<>>
    /\ gc_pc' = "returned"
    /\ UNCHANGED <<gc_store, gc_name, gc_ns>>
    /\ UNCHANGED notGc

\* lines 243-250: the list came back, the loop ran, cluster is returned
GetClusterReturn ==
    /\ gc_pc = "called"
    /\ gc_listErr' = Nil
    /\ gc_cluster' =
         RangeClusters(ListedInNamespace(gc_store, gc_ns), gc_name, <<>>)
    /\ gc_err' = Nil
    /\ gc_pc' = "returned"
    /\ UNCHANGED <<gc_store, gc_name, gc_ns>>
    /\ UNCHANGED notGc

NextGetCluster == GetClusterListFails \/ GetClusterReturn

InitSpecGetCluster ==
    /\ InitGetCluster /\ IdleCreate /\ IdleManifest /\ IdleClusterReady
    /\ IdleStatuses /\ IdleMachineReady /\ IdleDeleteKinds /\ IdleForceDelete
    /\ IdleForCluster /\ IdleGetKinds /\ IdleDeleteObject /\ IdleValidate
    /\ IdleExtract /\ IdleUpdateEndpoint /\ IdleStore /\ IdleCreateObjects

SpecGetCluster == InitSpecGetCluster /\ [][NextGetCluster]_vars

\* C37: when GetCluster has returned, it returned an error exactly when the
\* list call failed, and then no cluster; when the list call succeeded and
\* no cluster of the list has the name it returned no cluster and no
\* error; and when some have the name it returned the one that comes first
\* in the list.
C37_FirstNamedOrNothing ==
    gc_pc = "returned" =>
       LET list == ListedInNamespace(gc_store, gc_ns)
           named == {i \in 1..Len(list) : list[i].name = gc_name}
       IN  /\ gc_err # Nil <=> gc_listErr # Nil
           /\ gc_err # Nil => gc_cluster = <<>>
           /\ (gc_err = Nil /\ named = {}) => gc_cluster = <<>>
           /\ (gc_err = Nil /\ named # {}) =>
                 \E i \in named :
                    /\ \A j \in named : i <= j
                    /\ gc_cluster = <<list[i]>>

\* two clusters of the list over all namespaces have the name, and the
\* first of them was returned
C37_Witness ==
    /\ gc_pc = "returned"
    /\ gc_err = Nil
    /\ gc_ns = ""
    /\ Len(gc_store) = 2
    /\ gc_store[1].name = gc_name
    /\ gc_store[2].name = gc_name
    /\ gc_cluster = <<gc_store[1]>>

=============================================================================
